---- MODULE Spec2Model ----
(***************************************************************************)
(* Verification model of the starframe component graph (core/graph.rs),    *)
(* the collider queries and contacts (physics/collision), bodies, the      *)
(* input cache, the renderer's contexts and the test game's player.        *)
(*                                                                         *)
(* Rust indices are 0-based and TLA+ sequences 1-based: the Rust element   *)
(* v[i] is v[i + 1] here.  An Option<T> is a sequence of length at most    *)
(* one: None is <<>> and Some(x) is <<x>>.                                 *)
(***************************************************************************)
EXTENDS Integers, Sequences, FiniteSets, TLC

VARIABLES
    edge_layers,  \* Graph::edge_layers
    layers,       \* the Layer<T> handles returned by create_layer, in creation order
    pushed,       \* history: the components pushed to each layer, in call order
    weak,         \* the WeakNodeRef the caller holds, if any (with where it came from)
    last,         \* the last call made and what it returned
    panic,        \* "none", or the panic that aborted the program
    query,        \* the last query against colliders and its result
    body,         \* the Body under construction, if any
    input,        \* the InputCache
    since,        \* history: ticks since each button last changed its state
    ctx,          \* the Renderer and the RenderContext the caller holds, if any
    player        \* the Player tag, its pose and the bullets spawned for it

vars == <<edge_layers, layers, pushed, weak, last, panic, query, body, input, since, ctx, player>>

----------------------------------------------------------------------------
\* Bounds of the model.

MaxLayers == 2

MaxNodes == 3

MaxEdges == 3

\* ray starts lie in -MaxCoord..MaxCoord on both axes
MaxCoord == 3

\* half extents of the shapes and the radii of circles lie in 1..MaxHalf
MaxHalf == 2

\* the forward half-line of a ray is sampled at t = k / StepsPerUnit, k in 0..MaxSteps
MaxSteps == 20

\* circle centres lie within MaxOffset hundredths of the origin, or a whole
\* unit or two away
MaxOffset == 4

\* small circle radii lie in 0..MaxSmallRadius hundredths
MaxSmallRadius == 3

\* the second of two polygons lies within MaxSep of the first on both axes
MaxSep == 4

\* masses, areas and densities lie in 1..MaxMass
MaxMass == 2

\* tick is called while every age and the drag duration are below MaxAge
MaxAge == 3

\* the player moves at up to MaxSpeed units per tick on either side
MaxSpeed == 12

\* ticks of the player controller are taken until MaxBullets bullets exist
MaxBullets == 2

\* contexts are drawn while the queue holds fewer than MaxSubmits submissions
MaxSubmits == 3

\* a context records up to MaxCommands clears and passes
MaxCommands == 2

\* next is called on one ContactIterator up to MaxCalls times
MaxCalls == 258

\* the values of a u8, the type of ContactIterator::idx
U8Values == 256

\* a ray is parallel to a capsule when |dir.y| < 1 / ParallelPerUnit
ParallelPerUnit == 10000

Components == {"x", "y"}

----------------------------------------------------------------------------
\* Option<T>

None == <<>>

Some(x) == <<x>>

IsSome(o) == o # <<>>

Unwrap(o) == o[1]

----------------------------------------------------------------------------
\* core/graph.rs

GraphNew == <<>>

\* mutant: the layers that exist get no slot for the new target
CreateLayerNoGrow(el) ==
    [edge_layers |-> Append(el, [j \in 1..(Len(el) + 1) |-> <<>>]),
     layer |-> [index |-> Len(el), content |-> <<>>]]

CreateLayer(el) ==
    LET next_idx == Len(el)
        grown == [i \in 1..Len(el) |-> Append(el[i], <<>>)]
        targets == [j \in 1..(next_idx + 1) |-> <<>>]
    IN  [edge_layers |-> Append(grown, targets),
         layer |-> [index |-> next_idx, content |-> <<>>]]

\* Vec::resize_with(new_len, || None), for new_len >= len
ResizeWithNone(vec, new_len) ==
    [i \in 1..new_len |-> IF i <= Len(vec) THEN vec[i] ELSE None]

\* mutant: the previous value is replaced without the assert
ConnectOnewaySilent(el, start, end) ==
    LET s == start.layer_idx + 1
        e == end.layer_idx + 1
        edge_vec == el[s][e]
        grown == IF Len(edge_vec) <= start.item_idx
                 THEN ResizeWithNone(edge_vec, start.item_idx + 1)
                 ELSE edge_vec
    IN  [edge_layers |-> [el EXCEPT ![s][e] = [grown EXCEPT ![start.item_idx + 1] = Some(end.item_idx)]],
         panic |-> "none"]

\* mutant: the assert guards the target instead of the slot, so a node can
\* be the neighbour of one node only
ConnectOnewayExclusive(el, start, end) ==
    LET s == start.layer_idx + 1
        e == end.layer_idx + 1
        edge_vec == el[s][e]
        grown == IF Len(edge_vec) <= start.item_idx
                 THEN ResizeWithNone(edge_vec, start.item_idx + 1)
                 ELSE edge_vec
        taken == \E i \in 1..Len(edge_vec) : edge_vec[i] = Some(end.item_idx)
    IN  [edge_layers |-> [el EXCEPT ![s][e] = [grown EXCEPT ![start.item_idx + 1] = Some(end.item_idx)]],
         panic |-> IF taken \/ grown[start.item_idx + 1] # None THEN "overwrite" ELSE "none"]

\* mutant: the slots added below start are filled with the new target
ConnectOnewayFillsGap(el, start, end) ==
    LET s == start.layer_idx + 1
        e == end.layer_idx + 1
        edge_vec == el[s][e]
    IN  IF Len(edge_vec) <= start.item_idx
        THEN [edge_layers |->
                 [el EXCEPT ![s][e] =
                     [i \in 1..(start.item_idx + 1) |->
                         IF i <= Len(edge_vec) THEN edge_vec[i] ELSE Some(end.item_idx)]],
              panic |-> "none"]
        ELSE [edge_layers |->
                 [el EXCEPT ![s][e] = [edge_vec EXCEPT ![start.item_idx + 1] = Some(end.item_idx)]],
              panic |-> IF edge_vec[start.item_idx + 1] = None THEN "none" ELSE "overwrite"]

ConnectOneway(el, start, end) ==
    IF \/ start.layer_idx >= Len(el)
       \/ end.layer_idx >= Len(el[start.layer_idx + 1])
    THEN [edge_layers |-> el, panic |-> "index"]
    ELSE
    LET s == start.layer_idx + 1
        e == end.layer_idx + 1
        edge_vec == el[s][e]
    IN  IF Len(edge_vec) <= start.item_idx
        THEN LET resized == IF Len(edge_vec) # start.item_idx
                            THEN ResizeWithNone(edge_vec, start.item_idx)
                            ELSE edge_vec
             IN  [edge_layers |->
                      [el EXCEPT ![s][e] = Append(resized, Some(end.item_idx))],
                  panic |-> "none"]
        ELSE LET prev_val == edge_vec[start.item_idx + 1]
                 replaced == [edge_vec EXCEPT ![start.item_idx + 1] = Some(end.item_idx)]
             IN  [edge_layers |-> [el EXCEPT ![s][e] = replaced],
                  panic |-> IF prev_val = None THEN "none" ELSE "overwrite"]

\* mutant: the edge back from node2 is not written
ConnectForward(el, node1, node2) == ConnectOneway(el, node1, node2)

\* mutant: only the edge back from node2 is written
ConnectBackward(el, node1, node2) == ConnectOneway(el, node2, node1)

Connect(el, node1, node2) ==
    LET first == ConnectOneway(el, node1, node2)
    IN  IF first.panic # "none"
        THEN first
        ELSE ConnectOneway(first.edge_layers, node2, node1)

\* mutant: the two layer dimensions of the matrix are taken the other way round
GetNeighborTransposed(el, node, to_layer) ==
    LET edge_layer == el[to_layer.index + 1][node.layer_idx + 1]
    IN  IF Len(edge_layer) <= node.item_idx \/ edge_layer[node.item_idx + 1] = None
        THEN [panic |-> "none", ret |-> None]
        ELSE [panic |-> "none",
              ret |-> Some([item |-> node.item,
                            item_idx |-> Unwrap(edge_layer[node.item_idx + 1]),
                            layer_idx |-> to_layer.index])]

GetNeighbor(el, node, to_layer) ==
    IF \/ node.layer_idx >= Len(el)
       \/ to_layer.index >= Len(el[node.layer_idx + 1])
    THEN [panic |-> "index", ret |-> None]
    ELSE
    LET edge_layer == el[node.layer_idx + 1][to_layer.index + 1]
    IN  IF Len(edge_layer) <= node.item_idx
        THEN [panic |-> "none", ret |-> None]
        ELSE LET entry == edge_layer[node.item_idx + 1]
             IN  IF entry = None
                 THEN [panic |-> "none", ret |-> None]
                 ELSE IF Unwrap(entry) >= Len(to_layer.content)
                 THEN [panic |-> "index", ret |-> None]
                 ELSE [panic |-> "none",
                       ret |-> Some([item |-> to_layer.content[Unwrap(entry) + 1],
                                     item_idx |-> Unwrap(entry),
                                     layer_idx |-> to_layer.index])]

\* mutant: the new component goes to the front of the vector
PushFront(layer, component) ==
    LET id == Len(layer.content)
        content == <<component>> \o layer.content
    IN  [layer |-> [layer EXCEPT !.content = content],
         node |-> [item |-> content[id + 1], item_idx |-> id, layer_idx |-> layer.index]]

Push(layer, component) ==
    LET id == Len(layer.content)
        content == Append(layer.content, component)
    IN  [layer |-> [layer EXCEPT !.content = content],
         node |-> [item |-> content[id + 1], item_idx |-> id, layer_idx |-> layer.index]]

Iter(layer) == [layer |-> layer, idx |-> 0]

\* mutant: the index is advanced before the item is taken
LayerIterNextSkips(it) ==
    IF it.idx + 1 >= Len(it.layer.content)
    THEN [iter |-> it, item |-> None]
    ELSE [iter |-> [it EXCEPT !.idx = it.idx + 1],
          item |-> Some([item |-> it.layer.content[it.idx + 2],
                         item_idx |-> it.idx + 1,
                         layer_idx |-> it.layer.index])]

LayerIterNext(it) ==
    IF it.idx >= Len(it.layer.content)
    THEN [iter |-> it, item |-> None]
    ELSE [iter |-> [it EXCEPT !.idx = it.idx + 1],
          item |-> Some([item |-> it.layer.content[it.idx + 1],
                         item_idx |-> it.idx,
                         layer_idx |-> it.layer.index])]

\* what a `for n in layer.iter()` loop sees: the items up to the first None
RECURSIVE Drain(_)
Drain(it) ==
    LET step == LayerIterNext(it)
    IN  IF step.item = None THEN <<>> ELSE <<Unwrap(step.item)>> \o Drain(step.iter)

\* the iterator as it is left by the loop above
RECURSIVE Exhaust(_)
Exhaust(it) ==
    LET step == LayerIterNext(it)
    IN  IF step.item = None THEN step.iter ELSE Exhaust(step.iter)

\* mutant: the layer is not compared with the one the reference names
UpgradeUnchecked(w, layer) ==
    IF w.item_idx >= Len(layer.content)
    THEN [panic |-> "index", ret |-> None]
    ELSE [panic |-> "none",
          ret |-> Some([item |-> layer.content[w.item_idx + 1],
                        item_idx |-> w.item_idx,
                        layer_idx |-> layer.index])]

Downgrade(node) == [layer_idx |-> node.layer_idx, item_idx |-> node.item_idx]

Upgrade(w, layer) ==
    IF layer.index # w.layer_idx
    THEN [panic |-> "wrong_layer", ret |-> None]
    ELSE IF w.item_idx >= Len(layer.content)
    THEN [panic |-> "index", ret |-> None]
    ELSE [panic |-> "none",
          ret |-> Some([item |-> layer.content[w.item_idx + 1],
                        item_idx |-> w.item_idx,
                        layer_idx |-> layer.index])]

----------------------------------------------------------------------------
\* physics/collision/query.rs, in exact arithmetic.
\*
\* A vector is a pair of integers.  A Unit<Vec2> is a pair <<x, y>> with
\* x^2 + y^2 = 25 that stands for <<x, y>> / 5, and so is a rotation.  A Ray
\* record carries its two scales: its start stands for start / ps and its dir
\* for dir / ds.  A ray in world space has ps = 1 and ds = 5; taking it into a
\* collider's frame multiplies both by 5.  Lengths of a shape (hl, hw, hh,
\* circle_r) are whole.  Every comparison of the code is made on the scaled
\* integers, multiplied out so that both sides have the same scale.

Dot(a, b) == a[1] * b[1] + a[2] * b[2]

VSub(a, b) == <<a[1] - b[1], a[2] - b[2]>>

VAdd(a, b) == <<a[1] + b[1], a[2] + b[2]>>

VScale(k, a) == <<k * a[1], k * a[2]>>

VNeg(a) == <<-a[1], -a[2]>>

MagSq(a) == Dot(a, a)

Abs(x) == IF x < 0 THEN -x ELSE x

Max(x, y) == IF x >= y THEN x ELSE y

\* f64::copysign(mag, sign), with sign 0 standing for +0.0
Copysign(mag, sign) == IF sign < 0 THEN -Abs(mag) ELSE Abs(mag)

\* m::left_normal
LeftNormal(d) == <<-d[2], d[1]>>

\* the rotor reversed(rot) applied to v; the result is 5 times too long
RotateBack(rot, v) == <<rot[1] * v[1] + rot[2] * v[2], rot[1] * v[2] - rot[2] * v[1]>>

\* pose.inversed() * ray
PoseInversedMulRay(pose, ray) ==
    [start |-> RotateBack(pose.rotation, VSub(ray.start, VScale(ray.ps, pose.translation))),
     dir |-> RotateBack(pose.rotation, ray.dir),
     ps |-> ray.ps * 5,
     ds |-> ray.ds * 5]

\* a hit at t = num / den, den > 0
HitAt(num, den) == Some([kind |-> "ratio", num |-> num, den |-> den, b |-> 0, discr |-> 0])

\* a hit at t = (-b - sqrt(discr)) / den, den > 0
HitAtRoot(b, discr, den) ==
    Some([kind |-> "root", num |-> 0, den |-> den, b |-> b, discr |-> discr])

\* mutant: a start inside the circle is answered with the point where the ray
\* enters the circle behind it
RayCircleNoInsideCheck(ray, circ_pos, r) ==
    LET ray_start_wrt_circ == VSub(ray.start, VScale(ray.ps, circ_pos))
        b == Dot(ray_start_wrt_circ, ray.dir)
        c == MagSq(ray_start_wrt_circ) - (ray.ps * r) * (ray.ps * r)
        discr == b * b - ray.ds * ray.ds * c
    IN  IF (b > 0 /\ c > 0) \/ discr < 0
        THEN None
        ELSE HitAtRoot(b, discr, ray.ps * ray.ds)

\* ray_start_wrt_circ is scaled by ps, b by ps * ds, c by ps^2, discr by (ps * ds)^2
RayCircle(ray, circ_pos, r) ==
    LET ray_start_wrt_circ == VSub(ray.start, VScale(ray.ps, circ_pos))
        b == Dot(ray_start_wrt_circ, ray.dir)
        c == MagSq(ray_start_wrt_circ) - (ray.ps * r) * (ray.ps * r)
        discr == b * b - ray.ds * ray.ds * c
    IN  IF b > 0 /\ c > 0
        THEN None
        ELSE IF discr < 0
        THEN None
        \* t = -b - sqrt(discr) >= 0  iff  -b >= 0 and b^2 >= discr
        ELSE IF -b >= 0 /\ b * b >= discr
        THEN HitAtRoot(b, discr, ray.ps * ray.ds)
        ELSE None

\* ColliderPolygon::Rect: the edge towards +x and the edge towards +y; the two
\* others are their mirror images
GetEdge(poly, edge_idx) ==
    IF edge_idx = 0
    THEN [normal |-> <<1, 0>>,
          edge |-> [start |-> <<poly.hw, -poly.hh>>, dir |-> <<0, 1>>, length |-> 2 * poly.hh]]
    ELSE [normal |-> <<0, 1>>,
          edge |-> [start |-> <<poly.hw, poly.hh>>, dir |-> <<-1, 0>>, length |-> 2 * poly.hw]]

EdgeCount(poly) == IF poly.kind = "Rect" THEN 2 ELSE IF poly.kind = "LineSegment" THEN 1 ELSE 0

IsRotationallySymmetrical(poly) == TRUE

\* PolygonEdge::mirrored
EdgeMirrored(pe) ==
    [normal |-> VNeg(pe.normal),
     edge |-> [start |-> VNeg(pe.edge.start), dir |-> VNeg(pe.edge.dir),
               length |-> pe.edge.length]]

\* ColliderPolygon::projected_extent, for a direction scaled like dir
ProjectedExtent(poly, dir) == poly.hw * Abs(dir[1]) + poly.hh * Abs(dir[2])

\* ColliderPolygon::half_angle_between_edges_tan: the edges of a Rect meet at
\* a right angle, and tan(45 deg) = 1
HalfAngleBetweenEdgesTan(poly) == 1

\* One pass of the loop over the edges in ray_collider.  acc is
\* [hit |-> whether closest_hit_t is set, num, den |-> closest_hit_t * ps / ds
\* as num / den, vertex |-> vertex_for_circle_check].  The normals and
\* directions of the edges are whole unit vectors, so only the ray carries
\* scales: distances from the ray are scaled by ps, speeds by ds.
EdgeStep(acc, ray, shape, edge_idx, outer_edge_extra_length) ==
    LET first == GetEdge(shape.polygon, edge_idx)
        faces == Dot(first.normal, ray.dir) <= 0
        edge == IF faces THEN first ELSE EdgeMirrored(first)
        outer_start == VAdd(edge.edge.start, VScale(shape.circle_r, edge.normal))
        edge_dist_from_ray == VSub(VScale(ray.ps, outer_start), ray.start)
        ray_speed_to_edge == Dot(ray.dir, VNeg(edge.normal))
        \* ray_t_to_edge = t_num * ds / (ps * ray_speed_to_edge)
        t_num == Dot(edge_dist_from_ray, VNeg(edge.normal))
        ray_speed_along_edge == Dot(ray.dir, edge.edge.dir)
        \* edge_t_to_intersection = et_num / (ps * ray_speed_to_edge)
        et_num == t_num * ray_speed_along_edge
                  - Dot(edge_dist_from_ray, edge.edge.dir) * ray_speed_to_edge
        unit == ray.ps * ray_speed_to_edge
    IN  IF ~faces /\ ~IsRotationallySymmetrical(shape.polygon) THEN acc
        ELSE IF ray_speed_to_edge = 0 THEN acc
        ELSE IF (t_num < 0 /\ ray_speed_to_edge > 0) \/ (t_num > 0 /\ ray_speed_to_edge < 0)
        THEN acc
        ELSE IF \/ et_num < -outer_edge_extra_length * unit
                \/ et_num > (edge.edge.length + outer_edge_extra_length) * unit
        THEN acc
        ELSE IF acc.hit /\ acc.num * ray_speed_to_edge <= t_num * acc.den
        THEN acc
        ELSE [hit |-> TRUE, num |-> t_num, den |-> ray_speed_to_edge,
              vertex |-> IF et_num < 0
                         THEN Some(edge.edge.start)
                         ELSE IF et_num > edge.edge.length * unit
                         THEN Some(VAdd(edge.edge.start,
                                        VScale(edge.edge.length, edge.edge.dir)))
                         ELSE None]

RECURSIVE EdgeLoop(_, _, _, _, _)
EdgeLoop(acc, ray, shape, edge_idx, extra) ==
    IF edge_idx >= EdgeCount(shape.polygon)
    THEN acc
    ELSE EdgeLoop(EdgeStep(acc, ray, shape, edge_idx, extra), ray, shape, edge_idx + 1, extra)

\* mutant: the capsule does not ask whether a parallel ray starts between the caps
RayCapsuleParallelNoInside(ray, hl, r) ==
    IF Abs(ray.start[2]) >= ray.ps * r
    THEN None
    ELSE RayCircle(ray, <<Copysign(hl, ray.start[1]), 0>>, r)

\* the branch of the capsule for a ray parallel to it
RayCapsuleParallel(ray, hl, r) ==
    IF Abs(ray.start[2]) >= ray.ps * r \/ Abs(ray.start[1]) < ray.ps * hl
    THEN None
    ELSE RayCircle(ray, <<Copysign(hl, ray.start[1]), 0>>, r)

RayCollider(world_ray, pose, coll) ==
    LET r == coll.circle_r
    IN  IF coll.polygon.kind = "Point"
        THEN RayCircle(world_ray, pose.translation, r)
        ELSE IF coll.polygon.kind = "LineSegment"
        THEN
            LET ray == PoseInversedMulRay(pose, world_ray)
                hl == coll.polygon.hw
            IN  \* |dir.y| < 0.0001
                IF Abs(ray.dir[2]) * ParallelPerUnit < ray.ds
                THEN RayCapsuleParallel(ray, hl, r)
                ELSE
                LET facing_edge_y == Copysign(r, -ray.dir[2])
                    \* t_to_facing_edge = t_num * ds / (ps * dir.y)
                    t_num == ray.ps * facing_edge_y - ray.start[2]
                    \* x_at_edge_hit = x_num / (ps * dir.y)
                    x_num == ray.start[1] * ray.dir[2] + t_num * ray.dir[1]
                IN  IF t_num * ray.dir[2] < 0
                    THEN None
                    ELSE IF Abs(x_num) <= hl * ray.ps * Abs(ray.dir[2])
                    THEN HitAt(t_num * ray.ds * (IF ray.dir[2] < 0 THEN -1 ELSE 1),
                               ray.ps * Abs(ray.dir[2]))
                    ELSE RayCircle(ray, <<Copysign(hl, x_num * ray.dir[2]), 0>>, r)
        ELSE
            LET ray == PoseInversedMulRay(pose, world_ray)
                perp == LeftNormal(ray.dir)
                dist == Dot(ray.start, perp)
                ray_dir_perp == IF dist >= 0 THEN perp ELSE VNeg(perp)
                ray_dist == IF dist >= 0 THEN dist ELSE -dist
                poly_extent == ProjectedExtent(coll.polygon, ray_dir_perp)
                outer_edge_extra_length ==
                    IF r = 0 THEN 0 ELSE r \div HalfAngleBetweenEdgesTan(coll.polygon)
                done == EdgeLoop([hit |-> FALSE, num |-> 0, den |-> 1, vertex |-> None],
                                 ray, coll, 0, outer_edge_extra_length)
            IN  IF ray.ps * (poly_extent + r * ray.ds) <= ray_dist
                THEN None
                ELSE IF ~done.hit
                THEN None
                ELSE IF done.vertex # None
                THEN RayCircle(ray, Unwrap(done.vertex), r)
                ELSE HitAt(done.num * ray.ds, ray.ps * done.den)

----------------------------------------------------------------------------
\* The caller's view: the nodes it can hold are those iteration hands out.

SeqRange(s) == {s[i] : i \in 1..Len(s)}

NodesOf(layer) == SeqRange(Drain(Iter(layer)))

\* the number of edges the matrix stores
StoredEdges(el) ==
    Cardinality({<<f, t, i>> \in (1..Len(el)) \X (1..Len(el)) \X (1..MaxNodes) :
                    /\ t <= Len(el[f])
                    /\ i <= Len(el[f][t])
                    /\ el[f][t][i] # None})

AllNodes == UNION {NodesOf(layers[k]) : k \in 1..Len(layers)}

RECURSIVE ItemCount(_)
ItemCount(ls) ==
    IF ls = <<>> THEN 0 ELSE Len(Head(ls).content) + ItemCount(Tail(ls))

\* Bodies (physics/body.rs).  An f64 is the ratio num / den of two integers,
\* den = 0 standing for an infinity.
Ratio(num, den) == [num |-> num, den |-> den]

Whole(n) == Ratio(n, 1)

Times(a, b) == Ratio(a.num * b.num, a.den * b.den)

Over(a, b) == Ratio(a.num * b.den, a.den * b.num)

Infinite == [kind |-> "Infinite"]

\* impl From<f64> for Mass
MassFrom(mass) == [kind |-> "Finite", mass |-> mass, inverse |-> Over(Whole(1), mass)]

\* mutant: an infinite mass answers with the inverse of a unit mass
MassInvOfUnit(m) == IF m.kind = "Finite" THEN m.inverse ELSE Whole(1)

\* Mass::inv
MassInv(m) == IF m.kind = "Finite" THEN m.inverse ELSE Whole(0)

PhysicsPoseDefault == "default"

VelocityDefault == [angular |-> 0, linear |-> <<0, 0>>]

NewParticle(mass) ==
    [pose |-> PhysicsPoseDefault, velocity |-> VelocityDefault,
     mass |-> MassFrom(mass), moment_of_inertia |-> Infinite,
     ignores_gravity |-> FALSE]

NewDynamic(coll_info, density) ==
    LET mass == Times(coll_info.area, density)
    IN  [pose |-> PhysicsPoseDefault, velocity |-> VelocityDefault,
         mass |-> MassFrom(mass),
         moment_of_inertia |-> MassFrom(Times(coll_info.second_moment_of_area, density)),
         ignores_gravity |-> FALSE]

NewDynamicConstMass(coll_info, mass) ==
    LET density == Over(mass, coll_info.area)
    IN  [pose |-> PhysicsPoseDefault, velocity |-> VelocityDefault,
         mass |-> MassFrom(mass),
         moment_of_inertia |-> MassFrom(Times(coll_info.second_moment_of_area, density)),
         ignores_gravity |-> FALSE]

\* mutant: a kinematic body is given a unit mass
NewKinematicUnitMass ==
    [pose |-> PhysicsPoseDefault, velocity |-> VelocityDefault,
     mass |-> MassFrom(Whole(1)), moment_of_inertia |-> Infinite,
     ignores_gravity |-> FALSE]

NewKinematic ==
    [pose |-> PhysicsPoseDefault, velocity |-> VelocityDefault,
     mass |-> Infinite, moment_of_inertia |-> Infinite,
     ignores_gravity |-> FALSE]

WithPose(self, pose) == [self EXCEPT !.pose = pose]

WithVelocity(self, vel) == [self EXCEPT !.velocity = vel]

IgnoreGravity(self) == [self EXCEPT !.ignores_gravity = TRUE]

\* mutant: a body needs both its mass and its moment of inertia finite
SeesForcesBoth(self) ==
    self.mass.kind # "Infinite" /\ self.moment_of_inertia.kind # "Infinite"

SeesForces(self) ==
    ~(self.mass.kind = "Infinite" /\ self.moment_of_inertia.kind = "Infinite")

----------------------------------------------------------------------------
\* The input cache (input.rs).  Of the 163 keys the model keeps those the
\* player controller reads.
Keys == {"Right", "Left", "LShift", "Z"}

TrackedButtons == {"Left", "Middle", "Right"}

\* AgedState::new
AgedStateNew(state) == [state |-> state, age |-> 0]

\* impl Default for AgedState
AgedStateDefault == AgedStateNew("Released")

InputCacheNew ==
    [keyboard |-> [k \in Keys |-> AgedStateDefault],
     mouse_buttons |-> [b \in TrackedButtons |-> AgedStateDefault],
     cursor_pos |-> [kind |-> "OutOfWindow", pos |-> <<0, 0>>],
     scroll_delta |-> 0,
     drag_state |-> None]

\* nothing has changed its state since the cache was made
SinceNew == [keyboard |-> [k \in Keys |-> 0], mouse_buttons |-> [b \in TrackedButtons |-> 0]]

\* InputCache::tick
Tick(self) ==
    [self EXCEPT
        !.keyboard = [k \in Keys |-> [@[k] EXCEPT !.age = @ + 1]],
        !.mouse_buttons = [b \in TrackedButtons |-> [@[b] EXCEPT !.age = @ + 1]],
        !.scroll_delta = 0,
        !.drag_state =
            IF @ = None THEN None
            ELSE IF Unwrap(@).kind = "InProgress"
            THEN Some([Unwrap(@) EXCEPT !.duration = @ + 1])
            ELSE None]

GetKeyState(self, key) == self.keyboard[key]

IsKeyInState(self, key, wanted_state, age_limit) ==
    LET aged == GetKeyState(self, key)
    IN  IF aged.state = wanted_state
        THEN IF IsSome(age_limit) THEN aged.age <= Unwrap(age_limit) ELSE TRUE
        ELSE FALSE

IsKeyPressed(self, key, age_limit) == IsKeyInState(self, key, "Pressed", age_limit)

IsKeyReleased(self, key, age_limit) == IsKeyInState(self, key, "Released", age_limit)

GetKeyAxisState(self, pos_key, neg_key) ==
    IF GetKeyState(self, pos_key).state = "Pressed" THEN "Pos"
    ELSE IF GetKeyState(self, neg_key).state = "Pressed" THEN "Neg"
    ELSE "Zero"

\* evt.virtual_keycode is None or Some(code)
TrackKeyboard(self, virtual_keycode, state) ==
    IF IsSome(virtual_keycode)
    THEN LET code == Unwrap(virtual_keycode)
         IN  IF state # self.keyboard[code].state
             THEN [self EXCEPT !.keyboard[code] = AgedStateNew(state)]
             ELSE self
    ELSE self

\* InputCache::track_cursor_movement
TrackCursorMovement(self, position) == [self EXCEPT !.cursor_pos.pos = position]

\* InputCache::track_cursor_enter
TrackCursorEnter(self) == [self EXCEPT !.cursor_pos.kind = "InWindow"]

\* InputCache::track_cursor_leave
TrackCursorLeave(self) == [self EXCEPT !.cursor_pos.kind = "OutOfWindow"]

\* mutant: a finished drag ends where it started
FinishDragAtStart(self) ==
    IF self.drag_state # None /\ Unwrap(self.drag_state).kind = "InProgress"
    THEN [self EXCEPT !.drag_state =
            Some([kind |-> "Completed", start |-> Unwrap(self.drag_state).start,
                  duration |-> Unwrap(self.drag_state).duration,
                  end |-> Some(Unwrap(self.drag_state).start)])]
    ELSE self

BeginDrag(self) ==
    [self EXCEPT !.drag_state =
        Some([kind |-> "InProgress", start |-> self.cursor_pos.pos, duration |-> 0,
              end |-> None])]

FinishDrag(self) ==
    IF self.drag_state # None /\ Unwrap(self.drag_state).kind = "InProgress"
    THEN [self EXCEPT !.drag_state =
            Some([kind |-> "Completed", start |-> Unwrap(self.drag_state).start,
                  duration |-> Unwrap(self.drag_state).duration,
                  end |-> Some(self.cursor_pos.pos)])]
    ELSE self

\* button is one of the tracked ones or "Other"
TrackMouseButton(self, button, new_state) ==
    LET tracked == IF button \in TrackedButtons
                   THEN [self EXCEPT !.mouse_buttons[button] = AgedStateNew(new_state)]
                   ELSE self
    IN  IF button = "Left" /\ new_state = "Pressed" /\ self.drag_state = None
        THEN BeginDrag(tracked)
        ELSE IF button = "Left" /\ new_state = "Released"
        THEN FinishDrag(tracked)
        ELSE tracked

\* The renderer (graphics/renderer.rs): whether a frame is active, how many
\* command buffers the queue was handed, the RenderContext lent out, and the
\* calls the surface has received: get_current_texture (acquired) and
\* SurfaceTexture::present (presented).  window_draws is history: the calls
\* of draw_to_window since the last present_frame.
RendererNew ==
    [active_frame |-> FALSE, queue |-> 0, held |-> None,
     acquired |-> 0, presented |-> 0, window_draws |-> 0]

\* SubmitCheck::new
SubmitCheckNew == FALSE

\* impl Drop for SubmitCheck: the panic the assert raises, if any
SubmitCheckDrop(self) == IF self THEN "none" ELSE "unsubmitted"

\* the RenderContext the three draw_to_ functions build; commands lists
\* what was recorded through its encoder
RenderContextNew(made_by, depth) ==
    [made_by |-> made_by, depth |-> depth, commands |-> <<>>, submit_check |-> SubmitCheckNew]

\* mutant: every draw to the window takes a new swap-chain texture
DrawToWindowAcquiresAnew(r) ==
    [r EXCEPT !.active_frame = TRUE,
              !.acquired = @ + 1,
              !.window_draws = @ + 1,
              !.held = Some(RenderContextNew("draw_to_window", "window"))]

DrawToWindow(r) ==
    [r EXCEPT !.active_frame = TRUE,
              !.acquired = IF r.active_frame THEN @ ELSE @ + 1,
              !.window_draws = @ + 1,
              !.held = Some(RenderContextNew("draw_to_window", "window"))]

DrawToTexture(r, depth_target) ==
    [r EXCEPT !.held = Some(RenderContextNew("draw_to_texture", depth_target))]

DrawToTextureWindowDepth(r) ==
    [r EXCEPT !.held = Some(RenderContextNew("draw_to_texture_window_depth", "window"))]

\* RenderContext::clear, pass, pass_without_depth
Record(r, command) ==
    [r EXCEPT !.held = Some([Unwrap(@) EXCEPT !.commands = Append(@, command)])]

\* mutant: submit hands the commands over but leaves the check unset
SubmitUnmarked(r) ==
    [renderer |-> [r EXCEPT !.queue = @ + 1, !.held = None],
     panic |-> SubmitCheckDrop(Unwrap(r.held).submit_check)]

\* RenderContext::submit, and the drop of self at its end
Submit(r) ==
    LET self == [Unwrap(r.held) EXCEPT !.submit_check = TRUE]
    IN  [renderer |-> [r EXCEPT !.queue = @ + 1, !.held = None],
         panic |-> SubmitCheckDrop(self.submit_check)]

\* the context goes out of scope
DropContext(r) ==
    [renderer |-> [r EXCEPT !.held = None],
     panic |-> SubmitCheckDrop(Unwrap(r.held).submit_check)]

PresentFrame(r) ==
    [r EXCEPT !.active_frame = FALSE,
              !.presented = IF r.active_frame THEN @ + 1 ELSE @,
              !.window_draws = 0]

\* Player::new, at the origin, before any bullet is spawned
PlayerNew == [facing |-> "Left", translation |-> <<0, 0>>, bullets |-> <<>>]

\* no body, no render context, a fresh input cache and player
RestIdle ==
    /\ body = None
    /\ input = InputCacheNew
    /\ since = SinceNew
    /\ ctx = RendererNew
    /\ player = PlayerNew

RayIdle == [op |-> "none", coll |-> None, pose |-> None, ray |-> None, ret |-> None]

Init ==
    /\ edge_layers = GraphNew
    /\ layers = <<>>
    /\ pushed = <<>>
    /\ weak = None
    /\ last = [op |-> "new", arg |-> None, ret |-> None]
    /\ panic = "none"
    /\ query = RayIdle
    /\ RestIdle

\* let l = graph.create_layer();
CreateLayerAct ==
    /\ panic = "none"
    /\ Len(layers) < MaxLayers
    /\ LET r == CreateLayer(edge_layers)
       IN  /\ edge_layers' = r.edge_layers
           /\ layers' = Append(layers, r.layer)
           /\ last' = [op |-> "create_layer", arg |-> None, ret |-> Some(r.layer)]
    /\ pushed' = Append(pushed, <<>>)
    /\ UNCHANGED <<weak, panic, query, body, input, since, ctx, player>>

\* let n = layers[k].push(c);
PushAct(k, c) ==
    /\ panic = "none"
    /\ ItemCount(layers) < MaxNodes
    /\ LET r == Push(layers[k], c)
       IN  /\ layers' = [layers EXCEPT ![k] = r.layer]
           /\ last' = [op |-> "push", arg |-> None, ret |-> Some(r.node)]
    /\ pushed' = [pushed EXCEPT ![k] = Append(@, c)]
    /\ UNCHANGED <<edge_layers, weak, panic, query, body, input, since, ctx, player>>

\* graph.connect(&n1, &n2);
ConnectAct(n1, n2) ==
    /\ panic = "none"
    /\ LET r == Connect(edge_layers, n1, n2)
       IN  /\ edge_layers' = r.edge_layers
           /\ panic' = r.panic
    /\ last' = [op |-> "connect", arg |-> <<n1, n2>>, ret |-> None]
    /\ UNCHANGED <<layers, pushed, weak, query, body, input, since, ctx, player>>

\* graph.connect_oneway(&start, &end);
ConnectOnewayAct(start, end) ==
    /\ panic = "none"
    /\ LET r == ConnectOneway(edge_layers, start, end)
       IN  /\ edge_layers' = r.edge_layers
           /\ panic' = r.panic
    /\ last' = [op |-> "connect_oneway", arg |-> <<start, end>>, ret |-> None]
    /\ UNCHANGED <<layers, pushed, weak, query, body, input, since, ctx, player>>

\* let mut it = layers[k].iter(); for n in &mut it { .. }; it.next()
IterAct(k) ==
    /\ panic = "none"
    /\ LET it == Iter(layers[k])
       IN  last' = [op |-> "iter", arg |-> Some(k),
                    ret |-> [items |-> Drain(it),
                             then |-> LayerIterNext(Exhaust(it)).item]]
    /\ UNCHANGED <<edge_layers, layers, pushed, weak, panic, query, body, input, since, ctx, player>>

\* let w = n.downgrade();  where n was handed out by layers[k]
DowngradeAct(k, n) ==
    /\ panic = "none"
    /\ weak' = Some([ref |-> Downgrade(n), from |-> k, node |-> n,
                     len |-> Len(layers[k].content)])
    /\ last' = [op |-> "downgrade", arg |-> Some(k), ret |-> None]
    /\ UNCHANGED <<edge_layers, layers, pushed, panic, query, body, input, since, ctx, player>>

\* let n = w.upgrade(&layers[k]);
UpgradeAct(k) ==
    /\ panic = "none"
    /\ weak # None
    /\ LET r == Upgrade(Unwrap(weak).ref, layers[k])
       IN  /\ panic' = r.panic
           /\ last' = [op |-> "upgrade", arg |-> Some(k), ret |-> r.ret]
    /\ UNCHANGED <<edge_layers, layers, pushed, weak, query, body, input, since, ctx, player>>

\* The calls that build the edge matrix.  connect, connect_oneway and
\* get_neighbor never read a component, so the components pushed here are all
\* the same one; the matrix is filled up to MaxEdges edges.
Next ==
    \/ CreateLayerAct
    \/ \E k \in 1..Len(layers) : PushAct(k, "x")
    \/ /\ StoredEdges(edge_layers) + 2 <= MaxEdges
       /\ \E n1, n2 \in AllNodes : ConnectAct(n1, n2)
    \/ /\ StoredEdges(edge_layers) + 1 <= MaxEdges
       /\ \E n1, n2 \in AllNodes : ConnectOnewayAct(n1, n2)

Spec == Init /\ [][Next]_vars

\* The calls on layers and node references alone.
NextRefs ==
    \/ CreateLayerAct
    \/ \E k \in 1..Len(layers), c \in Components : PushAct(k, c)
    \/ \E k \in 1..Len(layers) : IterAct(k)
    \/ \E k \in 1..Len(layers) : \E n \in NodesOf(layers[k]) : DowngradeAct(k, n)
    \/ \E k \in 1..Len(layers) : UpgradeAct(k)

SpecRefs == Init /\ [][NextRefs]_vars

\* The graphs that are built with connect alone.
NextConnect ==
    \/ CreateLayerAct
    \/ \E k \in 1..Len(layers), c \in Components : PushAct(k, c)
    \/ /\ StoredEdges(edge_layers) + 2 <= MaxEdges
       /\ \E n1, n2 \in AllNodes : ConnectAct(n1, n2)

SpecConnect == Init /\ [][NextConnect]_vars

\* The ray queries: the collider, its pose and the ray are drawn at the start,
\* and the one call of ray_collider answers them.
Directions ==
    {<<5, 0>>, <<4, 3>>, <<3, 4>>, <<0, 5>>, <<-3, 4>>, <<-4, 3>>,
     <<-5, 0>>, <<-4, -3>>, <<-3, -4>>, <<0, -5>>, <<3, -4>>, <<4, -3>>}

Rotations == {<<5, 0>>, <<3, 4>>, <<0, 5>>, <<-4, 3>>, <<-3, -4>>, <<4, -3>>}

Translations == {<<0, 0>>, <<1, -2>>}

Poses == [translation : Translations, rotation : Rotations]

Radii == {1, 2}

\* Collider::new_circle, new_capsule, new_rect, new_rounded_rect: a polygon
\* (its unused half extents 0) and the radius it is inflated by
Circle(r) == [polygon |-> [kind |-> "Point", hw |-> 0, hh |-> 0], circle_r |-> r]

Capsule(hl, r) == [polygon |-> [kind |-> "LineSegment", hw |-> hl, hh |-> 0], circle_r |-> r]

Rect(hw, hh) == [polygon |-> [kind |-> "Rect", hw |-> hw, hh |-> hh], circle_r |-> 0]

RoundedRect(hw, hh, r) == [polygon |-> [kind |-> "Rect", hw |-> hw, hh |-> hh], circle_r |-> r]

Colliders ==
    {Circle(r) : r \in 1..MaxHalf}
    \cup {Capsule(hl, r) : hl \in 1..MaxHalf, r \in Radii}
    \cup {Rect(hw, hh) : hw \in 1..MaxHalf, hh \in 1..MaxHalf}
    \cup {RoundedRect(hw, hh, r) : hw \in 1..MaxHalf, hh \in 1..MaxHalf, r \in Radii}

WorldRays ==
    {[start |-> <<x, y>>, dir |-> d, ps |-> 1, ds |-> 5] :
        x \in -MaxCoord..MaxCoord, y \in -MaxCoord..MaxCoord, d \in Directions}

InitRay ==
    /\ edge_layers = GraphNew
    /\ layers = <<>>
    /\ pushed = <<>>
    /\ weak = None
    /\ last = [op |-> "new", arg |-> None, ret |-> None]
    /\ panic = "none"
    /\ RestIdle
    /\ query \in [op : {"ask"}, coll : Colliders, pose : Poses, ray : WorldRays, ret : {None}]

\* let hit = ray_collider(ray, pose, coll);
RayColliderAct ==
    /\ query.op = "ask"
    /\ query' = [query EXCEPT !.op = "ray_collider",
                               !.ret = RayCollider(query.ray, query.pose, query.coll)]
    /\ UNCHANGED <<edge_layers, layers, pushed, weak, last, panic, body, input, since, ctx, player>>

NextRay == RayColliderAct

SpecRay == InitRay /\ [][NextRay]_vars

\* pose.inversed() * point; the result is 5 times too long, as ps says
PoseInversedMulPoint(pose, point) ==
    [start |-> RotateBack(pose.rotation, VSub(point, pose.translation)), ps |-> 5]

PointColliderBool(point, pose, coll) ==
    LET r == coll.circle_r
        p_wrt_c == PoseInversedMulPoint(pose, point)
        x == p_wrt_c.start[1]
        y == p_wrt_c.start[2]
        ps == p_wrt_c.ps
    IN  IF coll.polygon.kind = "Point"
        THEN MagSq(p_wrt_c.start) < (ps * r) * (ps * r)
        ELSE IF coll.polygon.kind = "LineSegment"
        THEN LET x_dist == Max(Abs(x) - ps * coll.polygon.hw, 0)
                 y_dist == Abs(y)
             IN  x_dist * x_dist + y_dist * y_dist < (ps * r) * (ps * r)
        ELSE LET x_dist == Abs(x) - ps * coll.polygon.hw
                 y_dist == Abs(y) - ps * coll.polygon.hh
             IN  \/ x_dist <= 0 /\ y_dist <= 0
                 \/ x_dist * x_dist + y_dist * y_dist < (ps * r) * (ps * r)

\* The point queries: the collider, its pose and the point are drawn at the
\* start, and the one call of point_collider_bool answers them.
Points == {<<x, y>> : x \in -MaxCoord..MaxCoord, y \in -MaxCoord..MaxCoord}

InitPoint ==
    /\ edge_layers = GraphNew
    /\ layers = <<>>
    /\ pushed = <<>>
    /\ weak = None
    /\ last = [op |-> "new", arg |-> None, ret |-> None]
    /\ panic = "none"
    /\ RestIdle
    /\ query \in [op : {"ask"}, coll : Colliders, pose : Poses, point : Points, ret : {None}]

PointColliderBoolAct ==
    /\ query.op = "ask"
    /\ query' = [query EXCEPT !.op = "point_collider_bool",
                               !.ret = Some(PointColliderBool(query.point, query.pose, query.coll))]
    /\ UNCHANGED <<edge_layers, layers, pushed, weak, last, panic, body, input, since, ctx, player>>

NextPoint == PointColliderBoolAct

SpecPoint == InitPoint /\ [][NextPoint]_vars

----------------------------------------------------------------------------
\* Contacts between two shapes (shape_shape.rs).  Lengths of the circle
\* pairs are whole hundredths: UnitsPerOne of them make 1.0.
UnitsPerOne == 100

\* dist_sq < 0.001 is dist_sq * SamePositionPerUnit < 1.0
SamePositionPerUnit == 1000

Zero == [kind |-> "Zero"]

\* A Unit<Vec2> whose components are not rational is kept as the vector it
\* was normalised from: it stands for along / |along|, negated if neg is set.
\* Normalising -v gives the negative of normalising v, so along is kept with
\* its first nonzero component positive.
UnitX == [neg |-> FALSE, along |-> <<1, 0>>]

NewNormalize(v) ==
    IF v[1] > 0 \/ (v[1] = 0 /\ v[2] >= 0)
    THEN [neg |-> FALSE, along |-> v]
    ELSE [neg |-> TRUE, along |-> VNeg(v)]

\* -unit
NegUnit(unit) == [unit EXCEPT !.neg = ~@]

\* len * *unit
Scaled(len, unit) == [len |-> IF unit.neg THEN -len ELSE len, along |-> unit.along]

\* rotation * unit, for a rotation that is Some(rotor) or None
Turned(rotation, unit) == [rotation |-> rotation, unit |-> unit]

\* reversed.reversed() * (pt / ps + scaled): an offset in the frame of a shape
Offset(reversed, pt, ps, scaled) ==
    [reversed |-> reversed, pt |-> pt, ps |-> ps, scaled |-> scaled]

\* ContactResult::One(Contact { normal, offsets })
One(normal, offsets) == [kind |-> "One", normal |-> normal, offsets |-> offsets]

CircleCircle(pose1, r1, pose2, r2) ==
    LET pos1 == pose1.translation
        pos2 == pose2.translation
        dist == VSub(pos2, pos1)
        dist_sq == MagSq(dist)
        r_sum == r1 + r2
        contact(normal) ==
            One(Turned(None, normal),
                <<Offset(Some(pose1.rotation), <<0, 0>>, 1, Scaled(r1, normal)),
                  Offset(Some(pose2.rotation), <<0, 0>>, 1, Scaled(-r2, normal))>>)
    IN  IF dist_sq * SamePositionPerUnit < UnitsPerOne * UnitsPerOne
        THEN contact(UnitX)
        ELSE IF dist_sq < r_sum * r_sum
        THEN contact(NewNormalize(dist))
        ELSE Zero

\* intersection_check on two Point polygons
IntersectionCheckCircles(poses, shapes) ==
    CircleCircle(poses[1], shapes[1].circle_r, poses[2], shapes[2].circle_r)

CircleCoords == (-MaxOffset..MaxOffset) \cup {UnitsPerOne, 2 * UnitsPerOne}

CircleRadii == (0..MaxSmallRadius) \cup {UnitsPerOne}

CirclePoses ==
    [translation : {<<x, y>> : x \in CircleCoords, y \in -MaxOffset..MaxOffset},
     rotation : {<<5, 0>>, <<3, 4>>}]

InitCircles ==
    /\ edge_layers = GraphNew
    /\ layers = <<>>
    /\ pushed = <<>>
    /\ weak = None
    /\ last = [op |-> "new", arg |-> None, ret |-> None]
    /\ panic = "none"
    /\ RestIdle
    /\ \E p \in CirclePoses, r0 \in CircleRadii, r1 \in CircleRadii :
          query = [op |-> "ask",
                   poses |-> <<[translation |-> <<0, 0>>, rotation |-> <<5, 0>>], p>>,
                   shapes |-> <<Circle(r0), Circle(r1)>>,
                   ret |-> None]

IntersectionCheckCirclesAct ==
    /\ query.op = "ask"
    /\ query' = [query EXCEPT !.op = "intersection_check",
                               !.ret = Some(IntersectionCheckCircles(query.poses, query.shapes))]
    /\ UNCHANGED <<edge_layers, layers, pushed, weak, last, panic, body, input, since, ctx, player>>

NextCircles == IntersectionCheckCirclesAct

SpecCircles == InitCircles /\ [][NextCircles]_vars

\* ContactResult::Two(c1, c2), of two Contact records
Two(c1, c2) == [kind |-> "Two", c1 |-> c1, c2 |-> c2]

\* the Contact held by a ContactResult::One
ContactOfOne(cr) == [normal |-> cr.normal, offsets |-> cr.offsets]

\* ContactResult::iter
ContactResultIter(cr) == [cr |-> cr, idx |-> 0]

\* ContactIterator::next.  idx is a u8: with overflow checks (a debug build)
\* `self.idx += 1` at 255 and `self.idx - 1` at 0 panic, without them (a
\* release build) both wrap.
ContactIteratorNext(self, overflow_checks) ==
    LET idx == (self.idx + 1) % U8Values
        at == (idx - 1) % U8Values
        cr == self.cr
    IN  IF overflow_checks /\ (self.idx + 1 >= U8Values \/ idx - 1 < 0)
        THEN [iter |-> self, item |-> None, panic |-> "overflow"]
        ELSE [iter |-> [self EXCEPT !.idx = idx],
              item |-> CASE cr.kind = "Zero" -> None
                         [] cr.kind = "One" /\ at = 0 -> Some(ContactOfOne(cr))
                         [] cr.kind = "One" /\ at # 0 -> None
                         [] cr.kind = "Two" /\ at = 0 -> Some(cr.c1)
                         [] cr.kind = "Two" /\ at = 1 -> Some(cr.c2)
                         [] OTHER -> None,
              panic |-> "none"]

\* The iterator in use: a result is drawn, iter() is called on it, and next()
\* is called again and again; calls counts the calls of next.
SomeContacts ==
    {[normal |-> Turned(None, n),
      offsets |-> <<Offset(Some(<<5, 0>>), <<0, 0>>, 1, Scaled(1, n)),
                    Offset(Some(<<5, 0>>), <<0, 0>>, 1, Scaled(-1, n))>>] :
        n \in {UnitX, NewNormalize(<<-3, 4>>)}}

ContactResults ==
    {Zero} \cup {One(c.normal, c.offsets) : c \in SomeContacts}
           \cup {Two(c1, c2) : c1, c2 \in SomeContacts}

InitContacts ==
    /\ edge_layers = GraphNew
    /\ layers = <<>>
    /\ pushed = <<>>
    /\ weak = None
    /\ last = [op |-> "new", arg |-> None, ret |-> None]
    /\ panic = "none"
    /\ RestIdle
    /\ \E cr \in ContactResults, overflow_checks \in BOOLEAN :
          query = [op |-> "iter", iter |-> ContactResultIter(cr),
                   overflow_checks |-> overflow_checks, calls |-> 0, ret |-> None]

ContactIteratorNextAct ==
    /\ panic = "none"
    /\ query.calls < MaxCalls
    /\ LET r == ContactIteratorNext(query.iter, query.overflow_checks)
       IN  /\ query' = [query EXCEPT !.op = "next", !.iter = r.iter,
                                      !.calls = @ + 1, !.ret = r.item]
           /\ panic' = r.panic
    /\ UNCHANGED <<edge_layers, layers, pushed, weak, last, body, input, since, ctx, player>>

NextContacts == ContactIteratorNextAct

SpecContacts == InitContacts /\ [][NextContacts]_vars

\* rot * v, for a rotor given 5 times (or 25 times) too long
Rotate(rot, v) == <<rot[1] * v[1] - rot[2] * v[2], rot[2] * v[1] + rot[1] * v[2]>>

\* poses[0].inversed() * poses[1]: the translation is scaled by 5, the rotor by 25
Po2WrtPo1(poses) ==
    [translation |-> RotateBack(poses[1].rotation,
                                VSub(poses[2].translation, poses[1].translation)),
     rotation |-> RotateBack(poses[1].rotation, poses[2].rotation)]

\* [po2_wrt_po1.inversed(), po2_wrt_po1], the translations brought to the
\* common scale 125
RelativePoses(poses) ==
    LET po2_wrt_po1 == Po2WrtPo1(poses)
    IN  <<[translation |-> VNeg(RotateBack(po2_wrt_po1.rotation, po2_wrt_po1.translation)),
           rotation |-> <<po2_wrt_po1.rotation[1], -po2_wrt_po1.rotation[2]>>],
          [translation |-> VScale(25, po2_wrt_po1.translation),
           rotation |-> po2_wrt_po1.rotation]>>

\* ColliderPolygon::separating_axes of a Rect: the normals of the edges
\* towards +x and +y, each standing for its mirror image too
SeparatingAxes(poly) ==
    <<[axis |-> <<1, 0>>, extent |-> poly.hw, edge |-> GetEdge(poly, 0).edge,
       symmetrical |-> TRUE],
      [axis |-> <<0, 1>>, extent |-> poly.hh, edge |-> GetEdge(poly, 1).edge,
       symmetrical |-> TRUE]>>

\* SeparatingAxis::mirrored
AxisMirrored(a) ==
    [axis |-> VNeg(a.axis), extent |-> a.extent,
     edge |-> [start |-> VNeg(a.edge.start), dir |-> VNeg(a.edge.dir),
               length |-> a.edge.length],
     symmetrical |-> a.symmetrical]

\* the axes of shapes[0] with s_order [0, 1], then those of shapes[1] with [1, 0]
ChainedAxes(shapes) ==
    [i \in 1..Len(SeparatingAxes(shapes[1].polygon)) |->
        [axis |-> SeparatingAxes(shapes[1].polygon)[i], s_order |-> <<1, 2>>]]
    \o [i \in 1..Len(SeparatingAxes(shapes[2].polygon)) |->
        [axis |-> SeparatingAxes(shapes[2].polygon)[i], s_order |-> <<2, 1>>]]

\* the axis as the loop orients it: towards the other object
OrientedAxis(poses, entry) ==
    LET dist == RelativePoses(poses)[entry.s_order[2]].translation
    IN  IF Dot(entry.axis.axis, dist) >= 0 THEN entry.axis ELSE AxisMirrored(entry.axis)

\* depth of one pass of the loop, scaled by 125
Depth(poses, shapes, entry) ==
    LET relative_poses == RelativePoses(poses)
        dist == relative_poses[entry.s_order[2]].translation
        axis == OrientedAxis(poses, entry)
        axis_wrt_other == VNeg(Rotate(relative_poses[entry.s_order[1]].rotation, axis.axis))
    IN  125 * axis.extent
        + 125 * shapes[1].circle_r
        + 5 * ProjectedExtent(shapes[entry.s_order[2]].polygon, axis_wrt_other)
        + 125 * shapes[2].circle_r
        - Dot(dist, axis.axis)

RECURSIVE AxisLoop(_, _, _, _)

\* mutant: an overlap of exactly 0 does not separate
AxisLoopStrict(acc, poses, shapes, axes) ==
    IF axes = <<>>
    THEN acc
    ELSE
    LET entry == Head(axes)
        dist == RelativePoses(poses)[entry.s_order[2]].translation
        depth == Depth(poses, shapes, entry)
    IN  IF Dot(entry.axis.axis, dist) < 0 /\ ~entry.axis.symmetrical
        THEN AxisLoop(acc, poses, shapes, Tail(axes))
        ELSE IF depth < 0
        THEN Zero
        ELSE IF acc.pen_axis = None \/ depth < acc.pen_depth
        THEN AxisLoop([kind |-> "Penetrates", pen_depth |-> depth,
                       pen_axis |-> Some(OrientedAxis(poses, entry)),
                       shape_order |-> entry.s_order],
                      poses, shapes, Tail(axes))
        ELSE AxisLoop(acc, poses, shapes, Tail(axes))

\* The loop over the separating axes in any_any: Zero at the first axis whose
\* depth is <= 0, else what the loop leaves for the contact generation.
\* f64::MAX is a depth no axis reaches.
AxisLoop(acc, poses, shapes, axes) ==
    IF axes = <<>>
    THEN acc
    ELSE
    LET entry == Head(axes)
        dist == RelativePoses(poses)[entry.s_order[2]].translation
        depth == Depth(poses, shapes, entry)
    IN  IF Dot(entry.axis.axis, dist) < 0 /\ ~entry.axis.symmetrical
        THEN AxisLoop(acc, poses, shapes, Tail(axes))
        ELSE IF depth <= 0
        THEN Zero
        ELSE IF acc.pen_axis = None \/ depth < acc.pen_depth
        THEN AxisLoop([kind |-> "Penetrates", pen_depth |-> depth,
                       pen_axis |-> Some(OrientedAxis(poses, entry)),
                       shape_order |-> entry.s_order],
                      poses, shapes, Tail(axes))
        ELSE AxisLoop(acc, poses, shapes, Tail(axes))

\* any_any as far as the end of the loop over the axes
AnyAnyAxes(poses, shapes) ==
    AxisLoop([kind |-> "Penetrates", pen_depth |-> 0, pen_axis |-> None,
              shape_order |-> <<1, 2>>],
             poses, shapes, ChainedAxes(shapes))

PolygonShapes ==
    {RoundedRect(hw, hh, r) : hw \in 1..MaxHalf, hh \in 1..MaxHalf, r \in {0, 1}}

PolygonPoses ==
    [translation : {<<x, y>> : x \in -MaxSep..MaxSep, y \in -MaxSep..MaxSep},
     rotation : {<<5, 0>>, <<0, 5>>, <<3, 4>>, <<4, -3>>}]

InitPolygons ==
    /\ edge_layers = GraphNew
    /\ layers = <<>>
    /\ pushed = <<>>
    /\ weak = None
    /\ last = [op |-> "new", arg |-> None, ret |-> None]
    /\ panic = "none"
    /\ RestIdle
    /\ \E p \in PolygonPoses, rot0 \in {<<5, 0>>, <<3, 4>>},
          s0 \in PolygonShapes, s1 \in PolygonShapes :
          query = [op |-> "ask",
                   poses |-> <<[translation |-> <<0, 0>>, rotation |-> rot0], p>>,
                   shapes |-> <<s0, s1>>,
                   ret |-> None]

AnyAnyAxesAct ==
    /\ query.op = "ask"
    /\ query' = [query EXCEPT !.op = "any_any",
                               !.ret = Some(AnyAnyAxes(query.poses, query.shapes))]
    /\ UNCHANGED <<edge_layers, layers, pushed, weak, last, panic, body, input, since, ctx, player>>

NextPolygons == AnyAnyAxesAct

SpecPolygons == InitPolygons /\ [][NextPolygons]_vars

\* the closure of flip_contacts
FlipContact(c) ==
    [normal |-> Turned(c.normal.rotation, NegUnit(c.normal.unit)),
     offsets |-> <<c.offsets[2], c.offsets[1]>>]

\* contacts.map(closure): ContactResult::map applies it to every contact
FlipContacts(contacts) ==
    CASE contacts.kind = "Zero" -> Zero
      [] contacts.kind = "One" ->
            LET c == FlipContact(ContactOfOne(contacts)) IN One(c.normal, c.offsets)
      [] contacts.kind = "Two" -> Two(FlipContact(contacts.c1), FlipContact(contacts.c2))

\* ColliderPolygon::closest_boundary_point for a LineSegment and a Rect, on a
\* point p that is ps times too long: the nearest point of the boundary, and
\* whether p lies strictly inside
ClosestBoundaryPoint(poly, p, ps) ==
    LET hw == ps * poly.hw
        hh == ps * poly.hh
        clamp(x, h) == IF x > h THEN h ELSE IF x < -h THEN -h ELSE x
    IN  IF Abs(p[1]) < hw /\ Abs(p[2]) < hh
        THEN [is_interior |-> TRUE,
              pt |-> IF hw - Abs(p[1]) <= hh - Abs(p[2])
                     THEN <<Copysign(hw, p[1]), p[2]>>
                     ELSE <<p[1], Copysign(hh, p[2])>>]
        ELSE [is_interior |-> FALSE, pt |-> <<clamp(p[1], hw), clamp(p[2], hh)>>]

CircleAny(pose_circ, r_circ, pose_other, shape_other, r_other) ==
    LET pose_circ_local == Po2WrtPo1(<<pose_other, pose_circ>>)
        ps == 5
        dist == pose_circ_local.translation
        closest_pt == ClosestBoundaryPoint(shape_other.polygon, dist, ps)
        dist_from_closest == VSub(dist, closest_pt.pt)
        dir_from_closest == NewNormalize(dist_from_closest)
    IN  IF closest_pt.is_interior
        THEN One(Turned(Some(pose_other.rotation), dir_from_closest),
                 <<Offset(Some(pose_circ_local.rotation), <<0, 0>>, 1,
                          Scaled(r_circ, dir_from_closest)),
                   Offset(None, closest_pt.pt, ps, Scaled(-r_other, dir_from_closest))>>)
        ELSE LET r_sum == r_circ + r_other
                 dist_sq == MagSq(dist_from_closest)
             IN  IF dist_sq >= (ps * r_sum) * (ps * r_sum)
                 THEN Zero
                 ELSE One(Turned(Some(pose_other.rotation), NegUnit(dir_from_closest)),
                          <<Offset(Some(pose_circ_local.rotation), <<0, 0>>, 1,
                                   Scaled(r_circ, NegUnit(dir_from_closest))),
                            Offset(None, closest_pt.pt, ps, Scaled(r_other, dir_from_closest))>>)

\* intersection_check on two shapes of which at least one is a Point polygon
IntersectionCheckWithCircle(poses, shapes) ==
    LET r0 == shapes[1].circle_r
        r1 == shapes[2].circle_r
    IN  IF shapes[1].polygon.kind = "Point" /\ shapes[2].polygon.kind = "Point"
        THEN CircleCircle(poses[1], r0, poses[2], r1)
        ELSE IF shapes[1].polygon.kind = "Point"
        THEN CircleAny(poses[1], r0, poses[2], shapes[2], r1)
        ELSE FlipContacts(CircleAny(poses[2], r1, poses[1], shapes[1], r0))

\* The pairs with a circle: two shapes and their poses are drawn, and
\* intersection_check is called on them in both orders.
PairShapes ==
    {Circle(r) : r \in CircleRadii}
    \cup {Capsule(UnitsPerOne, r) : r \in {1, UnitsPerOne}}
    \cup {Rect(UnitsPerOne, 2 * UnitsPerOne), RoundedRect(UnitsPerOne, UnitsPerOne, MaxSmallRadius)}

InitPairs ==
    /\ edge_layers = GraphNew
    /\ layers = <<>>
    /\ pushed = <<>>
    /\ weak = None
    /\ last = [op |-> "new", arg |-> None, ret |-> None]
    /\ panic = "none"
    /\ RestIdle
    /\ \E p \in CirclePoses, s0 \in PairShapes, s1 \in PairShapes, rot \in {<<5, 0>>, <<-4, 3>>} :
          /\ s0.polygon.kind = "Point" \/ s1.polygon.kind = "Point"
          /\ query = [op |-> "ask",
                      poses |-> <<[translation |-> <<0, 0>>, rotation |-> rot], p>>,
                      shapes |-> <<s0, s1>>,
                      ret |-> None,
                      swapped |-> None]

IntersectionCheckBothAct ==
    /\ query.op = "ask"
    /\ query' = [query EXCEPT
                    !.op = "intersection_check",
                    !.ret = Some(IntersectionCheckWithCircle(query.poses, query.shapes)),
                    !.swapped = Some(IntersectionCheckWithCircle(
                                        <<query.poses[2], query.poses[1]>>,
                                        <<query.shapes[2], query.shapes[1]>>))]
    /\ UNCHANGED <<edge_layers, layers, pushed, weak, last, panic, body, input, since, ctx, player>>

NextPairs == IntersectionCheckBothAct

SpecPairs == InitPairs /\ [][NextPairs]_vars

----------------------------------------------------------------------------
\* Edge clipping (shape_shape.rs).  The f64 values clip_edge divides out are
\* kept as they are in exact arithmetic: a finite value is num / den with
\* den > 0, and a division by zero gives an infinity or, for 0 / 0, a NaN.

Finite(num, den) == [kind |-> "finite", num |-> num, den |-> den]

NaN == [kind |-> "nan", num |-> 0, den |-> 0]

Infinity(negative) == [kind |-> IF negative THEN "-inf" ELSE "inf", num |-> 0, den |-> 0]

\* num / den, the zero den stands for being -0.0 if negative_zero is set
Divide(num, den, negative_zero) ==
    IF den > 0 THEN Finite(num, den)
    ELSE IF den < 0 THEN Finite(-num, -den)
    ELSE IF num = 0 THEN NaN
    ELSE Infinity((num < 0) # negative_zero)

\* a < b and a <= b on f64: false when either is a NaN
Less(a, b) ==
    /\ a.kind # "nan" /\ b.kind # "nan"
    /\ \/ a.kind = "-inf" /\ b.kind # "-inf"
       \/ a.kind # "inf" /\ b.kind = "inf"
       \/ a.kind = "finite" /\ b.kind = "finite" /\ a.num * b.den < b.num * a.den

LessEq(a, b) ==
    /\ a.kind # "nan" /\ b.kind # "nan"
    /\ \/ a.kind = "-inf"
       \/ b.kind = "inf"
       \/ a.kind = "finite" /\ b.kind = "finite" /\ a.num * b.den <= b.num * a.den

\* f64::max and f64::min: the other value if one is a NaN
FMax(a, b) == IF a.kind = "nan" THEN b ELSE IF b.kind = "nan" THEN a ELSE IF Less(a, b) THEN b ELSE a

FMin(a, b) == IF a.kind = "nan" THEN b ELSE IF b.kind = "nan" THEN a ELSE IF Less(b, a) THEN b ELSE a

\* whether a.dot(b) of two perpendicular vectors is -0.0: each product is a
\* zero, negative if its nonzero factor is, and the sum of two zeros is
\* negative only if both are (a zero component is +0.0)
DotIsNegativeZero(a, b) ==
    /\ a[1] * b[1] = 0 /\ a[2] * b[2] = 0
    /\ a[1] < 0 \/ b[1] < 0
    /\ a[2] < 0 \/ b[2] < 0

\* Edge { start, dir, length }: dir is a Unit<Vec2>, 5 times too long
Edge(start, dir, length) == [start |-> start, dir |-> dir, length |-> length]

Passes(enters, exits) == [kind |-> "Passes", enters |-> enters, exits |-> exits]

\* clip_edge.  With both dirs 5 times too long, denom and dirs_dot are 25
\* times and the other dot and cross products 5 times too large.  A zero
\* denom makes t[0] a NaN or an infinity, and the first test false whatever
\* the sign of that zero.
ClipEdge(target, edge) ==
    LET start_dist == VSub(target.start, edge.start)
        denom == edge.dir[1] * (-target.dir[2]) - (-target.dir[1]) * edge.dir[2]
        t == <<Divide(5 * (start_dist[1] * (-target.dir[2]) - (-target.dir[1]) * start_dist[2]),
                      denom, FALSE),
               Divide(5 * (edge.dir[1] * start_dist[2] - start_dist[1] * edge.dir[2]),
                      denom, FALSE)>>
        zero == Finite(0, 1)
    IN  IF /\ LessEq(zero, t[1]) /\ LessEq(t[1], Finite(edge.length, 1))
           /\ LessEq(zero, t[2]) /\ LessEq(t[2], Finite(target.length, 1))
        THEN [kind |-> "Intersects"]
        ELSE LET dist_dot_dir2 == Dot(start_dist, target.dir)
                 dirs_dot == Dot(edge.dir, target.dir)
                 negative_zero == DotIsNegativeZero(edge.dir, target.dir)
                 start_clip_t == Divide(5 * dist_dot_dir2, dirs_dot, negative_zero)
                 end_clip_t == Divide(5 * (5 * target.length + dist_dot_dir2), dirs_dot,
                                      negative_zero)
                 length == Finite(edge.length, 1)
             IN  IF \/ LessEq(start_clip_t, zero) /\ LessEq(end_clip_t, zero)
                    \/ LessEq(length, start_clip_t) /\ LessEq(length, end_clip_t)
                 THEN [kind |-> "Misses"]
                 ELSE IF Less(start_clip_t, end_clip_t)
                 THEN Passes(FMax(start_clip_t, zero), FMin(end_clip_t, length))
                 ELSE Passes(FMax(end_clip_t, zero), FMin(start_clip_t, length))

\* The edges clipped: a target from the point (1, 1) and an edge are drawn,
\* and the one call of clip_edge answers them.
InitClip ==
    /\ edge_layers = GraphNew
    /\ layers = <<>>
    /\ pushed = <<>>
    /\ weak = None
    /\ last = [op |-> "new", arg |-> None, ret |-> None]
    /\ panic = "none"
    /\ RestIdle
    /\ \E tdir \in Directions, tlen \in 1..MaxHalf, p \in Points, dir \in Directions,
          length \in 1..MaxHalf :
          query = [op |-> "ask", target |-> Edge(<<1, 1>>, tdir, tlen),
                   edge |-> Edge(p, dir, length), ret |-> None]

ClipEdgeAct ==
    /\ query.op = "ask"
    /\ query' = [query EXCEPT !.op = "clip_edge",
                               !.ret = Some(ClipEdge(query.target, query.edge))]
    /\ UNCHANGED <<edge_layers, layers, pushed, weak, last, panic, body, input, since, ctx, player>>

NextClip == ClipEdgeAct

SpecClip == InitClip /\ [][NextClip]_vars

----------------------------------------------------------------------------
\* Building a body: one constructor, then any of the builder calls.
Masses == {Whole(m) : m \in 1..MaxMass}

ColliderInfos ==
    [area : {Whole(a) : a \in 1..MaxMass}, second_moment_of_area : {Whole(i) : i \in 1..MaxMass}]

PhysicsPoses == {<<0, 0>>, <<1, 2>>}

Velocities == {[angular |-> 0, linear |-> <<1, 0>>], [angular |-> 1, linear |-> <<0, 0>>]}

Built(op, arg, b) ==
    /\ panic = "none"
    /\ body = None
    /\ body' = Some(b)
    /\ last' = [op |-> op, arg |-> arg, ret |-> None]
    /\ UNCHANGED <<edge_layers, layers, pushed, weak, panic, query, input, since, ctx, player>>

NewParticleAct(mass) == Built("new_particle", Some(mass), NewParticle(mass))

NewDynamicAct(coll_info, density) ==
    Built("new_dynamic", Some(<<coll_info, density>>), NewDynamic(coll_info, density))

NewDynamicConstMassAct(coll_info, mass) ==
    Built("new_dynamic_const_mass", Some(<<coll_info, mass>>),
          NewDynamicConstMass(coll_info, mass))

NewKinematicAct == Built("new_kinematic", None, NewKinematic)

Chained(op, arg, b) ==
    /\ panic = "none"
    /\ body # None
    /\ body' = Some(b)
    /\ last' = [op |-> op, arg |-> arg, ret |-> None]
    /\ UNCHANGED <<edge_layers, layers, pushed, weak, panic, query, input, since, ctx, player>>

WithPoseAct(pose) == body # None /\ Chained("with_pose", Some(pose), WithPose(Unwrap(body), pose))

WithVelocityAct(vel) ==
    body # None /\ Chained("with_velocity", Some(vel), WithVelocity(Unwrap(body), vel))

IgnoreGravityAct == body # None /\ Chained("ignore_gravity", None, IgnoreGravity(Unwrap(body)))

NextBody ==
    \/ \E mass \in Masses : NewParticleAct(mass)
    \/ \E coll_info \in ColliderInfos, density \in Masses : NewDynamicAct(coll_info, density)
    \/ \E coll_info \in ColliderInfos, mass \in Masses : NewDynamicConstMassAct(coll_info, mass)
    \/ NewKinematicAct
    \/ \E pose \in PhysicsPoses : WithPoseAct(pose)
    \/ \E vel \in Velocities : WithVelocityAct(vel)
    \/ IgnoreGravityAct

SpecBody == Init /\ [][NextBody]_vars

----------------------------------------------------------------------------
\* The player controller (examples/testgame/player.rs).  Speeds are whole
\* units per tick; bullets are kept in tenths.
MoveSpeed == 4

MaxAcceleration == 8

JumpSpeed == 4

Min(x, y) == IF x <= y THEN x ELSE y

\* Facing::orient_vec
OrientVec(facing, vel) == IF facing = "Right" THEN vel ELSE <<-vel[1], vel[2]>>

\* One player's pass through PlayerController::tick and the bullets spawned
\* after the loop: the new Player and Body.
PlayerTick(p, b, inp) ==
    LET axis == GetKeyAxisState(inp, "Right", "Left")
        target_facing == IF axis = "Zero" THEN None
                         ELSE IF axis = "Pos" THEN Some("Right") ELSE Some("Left")
        target_hdir == IF axis = "Zero" THEN 0 ELSE IF axis = "Pos" THEN 1 ELSE -1
        facing == IF IsSome(target_facing) THEN Unwrap(target_facing) ELSE p.facing
        move_speed == MoveSpeed
        target_hvel == target_hdir * move_speed
        accel_needed == target_hvel - b.velocity.linear[1]
        accel == Min(accel_needed, MaxAcceleration)
        vx == b.velocity.linear[1] + accel
        vy == IF IsKeyPressed(inp, "LShift", Some(0)) THEN JumpSpeed ELSE b.velocity.linear[2]
        bullet_queue ==
            IF IsKeyPressed(inp, "Z", Some(0))
            THEN <<[pose |-> VAdd(VScale(10, p.translation), OrientVec(facing, <<2, 0>>)),
                    velocity |-> [angular |-> 0, linear |-> OrientVec(facing, <<200, 1>>)]]>>
            ELSE <<>>
    IN  [player |-> [p EXCEPT !.facing = facing, !.bullets = @ \o bullet_queue],
         body |-> [b EXCEPT !.velocity.linear = <<vx, vy>>]]

KeyStates == [state : {"Pressed", "Released"}, age : {0, 1}]

\* the game as a tick finds it: a particle moving at any speed, the keys in
\* any state
InitPlayer ==
    /\ edge_layers = GraphNew
    /\ layers = <<>>
    /\ pushed = <<>>
    /\ weak = None
    /\ last = [op |-> "new", arg |-> None, ret |-> None]
    /\ panic = "none"
    /\ query = RayIdle
    /\ ctx = RendererNew
    /\ player = PlayerNew
    /\ \E vx \in -MaxSpeed..MaxSpeed :
          body = Some(WithVelocity(NewParticle(Whole(1)),
                                   [angular |-> 0, linear |-> <<vx, 0>>]))
    /\ \E keyboard \in [Keys -> KeyStates] :
          /\ input = [InputCacheNew EXCEPT !.keyboard = keyboard]
          /\ since = [SinceNew EXCEPT !.keyboard = [k \in Keys |-> keyboard[k].age]]

PlayerTickAct ==
    /\ panic = "none"
    /\ Len(player.bullets) < MaxBullets
    /\ LET after == PlayerTick(player, Unwrap(body), input)
       IN  /\ player' = after.player
           /\ body' = Some(after.body)
    /\ last' = [op |-> "tick", arg |-> None, ret |-> None]
    /\ UNCHANGED <<edge_layers, layers, pushed, weak, panic, query, input, since, ctx>>

NextPlayer == PlayerTickAct

SpecPlayer == InitPlayer /\ [][NextPlayer]_vars

----------------------------------------------------------------------------
\* The input cache in use: window events arrive between ticks.  Events are
\* drawn for the keys and buttons below; the others only age.
EventKeys == {"LShift"}

EventButtons == {"Left", "Right", "Other"}

ElementStates == {"Pressed", "Released"}

TickAct ==
    /\ panic = "none"
    /\ \A k \in Keys : input.keyboard[k].age < MaxAge
    /\ \A b \in TrackedButtons : input.mouse_buttons[b].age < MaxAge
    /\ input.drag_state # None /\ Unwrap(input.drag_state).kind = "InProgress"
          => Unwrap(input.drag_state).duration < MaxAge
    /\ input' = Tick(input)
    /\ since' = [keyboard |-> [k \in Keys |-> since.keyboard[k] + 1],
                 mouse_buttons |-> [b \in TrackedButtons |-> since.mouse_buttons[b] + 1]]
    /\ last' = [op |-> "tick", arg |-> None, ret |-> None]
    /\ UNCHANGED <<edge_layers, layers, pushed, weak, panic, query, body, ctx, player>>

TrackKeyboardAct(virtual_keycode, state) ==
    /\ panic = "none"
    /\ input' = TrackKeyboard(input, virtual_keycode, state)
    /\ since' = IF IsSome(virtual_keycode)
                   /\ input.keyboard[Unwrap(virtual_keycode)].state # state
                THEN [since EXCEPT !.keyboard[Unwrap(virtual_keycode)] = 0]
                ELSE since
    /\ last' = [op |-> "track_keyboard", arg |-> <<virtual_keycode, state>>, ret |-> None]
    /\ UNCHANGED <<edge_layers, layers, pushed, weak, panic, query, body, ctx, player>>

TrackMouseButtonAct(button, new_state) ==
    /\ panic = "none"
    /\ input' = TrackMouseButton(input, button, new_state)
    /\ since' = IF button \in TrackedButtons /\ input.mouse_buttons[button].state # new_state
                THEN [since EXCEPT !.mouse_buttons[button] = 0]
                ELSE since
    /\ last' = [op |-> "track_mouse_button", arg |-> <<button, new_state>>, ret |-> None]
    /\ UNCHANGED <<edge_layers, layers, pushed, weak, panic, query, body, ctx, player>>

NextInput ==
    \/ TickAct
    \/ \E code \in {None} \cup {Some(k) : k \in EventKeys}, state \in ElementStates :
          TrackKeyboardAct(code, state)
    \/ \E button \in EventButtons, new_state \in ElementStates :
          TrackMouseButtonAct(button, new_state)

SpecInput == Init /\ [][NextInput]_vars

\* Dragging: the mouse buttons and the cursor between ticks.
CursorPositions == {<<0, 0>>, <<3, 1>>}

\* an event that changes only the cursor
CursorAct(op, arg, moved) ==
    /\ panic = "none"
    /\ input' = moved
    /\ last' = [op |-> op, arg |-> arg, ret |-> None]
    /\ UNCHANGED <<edge_layers, layers, pushed, weak, panic, query, body, since, ctx, player>>

TrackCursorMovementAct(position) ==
    CursorAct("track_cursor_movement", Some(position), TrackCursorMovement(input, position))

TrackCursorEnterAct == CursorAct("track_cursor_enter", None, TrackCursorEnter(input))

TrackCursorLeaveAct == CursorAct("track_cursor_leave", None, TrackCursorLeave(input))

NextDrag ==
    \/ TickAct
    \/ \E button \in EventButtons, new_state \in ElementStates :
          TrackMouseButtonAct(button, new_state)
    \/ \E position \in CursorPositions : TrackCursorMovementAct(position)
    \/ TrackCursorEnterAct
    \/ TrackCursorLeaveAct

SpecDrag == Init /\ [][NextDrag]_vars

----------------------------------------------------------------------------
\* Drawing: a context borrows the renderer, so one is held at a time.
Rendered(op, r, p) ==
    /\ panic = "none"
    /\ ctx' = r
    /\ panic' = p
    /\ last' = [op |-> op, arg |-> None, ret |-> None]
    /\ UNCHANGED <<edge_layers, layers, pushed, weak, query, body, input, since, player>>

DrawToWindowAct ==
    /\ ctx.held = None /\ ctx.queue < MaxSubmits
    /\ Rendered("draw_to_window", DrawToWindow(ctx), "none")

DrawToTextureAct(depth_target) ==
    /\ ctx.held = None /\ ctx.queue < MaxSubmits
    /\ Rendered("draw_to_texture", DrawToTexture(ctx, depth_target), "none")

DrawToTextureWindowDepthAct ==
    /\ ctx.held = None /\ ctx.queue < MaxSubmits
    /\ Rendered("draw_to_texture_window_depth", DrawToTextureWindowDepth(ctx), "none")

RecordAct(command) ==
    /\ ctx.held # None
    /\ Len(Unwrap(ctx.held).commands) < MaxCommands
    /\ Rendered(command, Record(ctx, command), "none")

SubmitAct ==
    /\ ctx.held # None
    /\ Rendered("submit", Submit(ctx).renderer, Submit(ctx).panic)

DropContextAct ==
    /\ ctx.held # None
    /\ Rendered("drop", DropContext(ctx).renderer, DropContext(ctx).panic)

PresentFrameAct ==
    /\ ctx.held = None
    /\ Rendered("present_frame", PresentFrame(ctx), "none")

NextRender ==
    \/ DrawToWindowAct
    \/ \E depth_target \in {"none", "texture"} : DrawToTextureAct(depth_target)
    \/ DrawToTextureWindowDepthAct
    \/ \E command \in {"clear", "pass", "pass_without_depth"} : RecordAct(command)
    \/ SubmitAct
    \/ DropContextAct
    \/ PresentFrameAct

SpecRender == Init /\ [][NextRender]_vars

----------------------------------------------------------------------------
\* What the claims are stated in.

LayerIds == 1..Len(layers)

\* the handle a node was handed out by
IsLayerOf(k, n) == n \in NodesOf(layers[k])

\* graph.get_neighbor(&n, &ls[k]) on the edge matrix el
ResolveIn(el, ls, n, k) == GetNeighbor(el, n, ls[k])

\* get_neighbor(n, layer k) returns a node with m's item_idx
ResolvesToIn(el, ls, n, k, m) ==
    /\ ResolveIn(el, ls, n, k).panic = "none"
    /\ ResolveIn(el, ls, n, k).ret # None
    /\ Unwrap(ResolveIn(el, ls, n, k).ret).item_idx = m.item_idx

\* the same, in the state before a call and in the state after it
Resolve(n, k) == ResolveIn(edge_layers, layers, n, k)

ResolveAfter(n, k) == ResolveIn(edge_layers', layers', n, k)

ResolvesTo(n, k, m) == ResolvesToIn(edge_layers, layers, n, k, m)

ResolvesToAfter(n, k, m) == ResolvesToIn(edge_layers', layers', n, k, m)

\* an edge from n into the layer of m is set
EdgeSet(n, m) == \E k \in LayerIds : IsLayerOf(k, m) /\ Resolve(n, k).ret # None

Linked(a, b) ==
    /\ \A k \in LayerIds : IsLayerOf(k, b) => ResolvesTo(a, k, b)
    /\ \A k \in LayerIds : IsLayerOf(k, a) => ResolvesTo(b, k, a)

LinkedAfter(a, b) ==
    /\ \A k \in LayerIds : IsLayerOf(k, b) => ResolvesToAfter(a, k, b)
    /\ \A k \in LayerIds : IsLayerOf(k, a) => ResolvesToAfter(b, k, a)

\* C1: a connect(a, b) that returns leaves a resolving to b and b to a, and
\* every later call that returns (create_layer, push, connect, connect_oneway)
\* leaves every get_neighbor that was Some as it was.
C1_ConnectLinksBothWays ==
    [][panic' = "none" =>
         /\ last'.op = "connect" => LinkedAfter(last'.arg[1], last'.arg[2])
         /\ \A k \in LayerIds : \A n \in AllNodes :
               Resolve(n, k).ret # None => ResolveAfter(n, k) = Resolve(n, k)]_vars

C1_Witness ==
    /\ panic = "none"
    /\ last.op \in {"push", "connect_oneway", "create_layer"}
    /\ \E a, b \in AllNodes :
          /\ a.layer_idx # b.layer_idx
          /\ Linked(a, b)
          /\ \E c \in AllNodes : c # a /\ c # b /\ EdgeSet(c, b)

\* C2: connect_oneway(start, end) panics exactly when an edge from start into
\* end's layer is already set, and otherwise writes the edge; connect(a, b)
\* panics exactly when one of its two directions finds its edge set (the second
\* direction of connect(a, a) finds the edge the first has just written).
C2_OverwritePanics ==
    [][/\ last'.op = "connect_oneway" =>
            LET s == last'.arg[1]
                e == last'.arg[2]
            IN  /\ panic' = (IF EdgeSet(s, e) THEN "overwrite" ELSE "none")
                /\ ~EdgeSet(s, e) =>
                      \A k \in LayerIds : IsLayerOf(k, e) => ResolvesToAfter(s, k, e)
       /\ last'.op = "connect" =>
            LET a == last'.arg[1]
                b == last'.arg[2]
            IN  panic' = (IF EdgeSet(a, b) \/ EdgeSet(b, a) \/ a = b
                          THEN "overwrite" ELSE "none")]_vars

C2_Witness ==
    /\ panic = "overwrite"
    /\ last.op = "connect_oneway"

\* C3: a second connect_oneway(a, b), made when a already resolves to b in b's
\* layer, returns without panicking and leaves the edge matrix as it was.
C3_OnewayIdempotent ==
    [][(/\ last'.op = "connect_oneway"
        /\ \E k \in LayerIds :
              /\ IsLayerOf(k, last'.arg[2])
              /\ Resolve(last'.arg[1], k).ret = Some(last'.arg[2]))
       => (panic' = "none" /\ edge_layers' = edge_layers)]_vars

\* the entry edge_layers[n.layer_idx][layers[k].index][n.item_idx] exists and is set
EntrySet(n, k) ==
    LET vec == edge_layers[n.layer_idx + 1][layers[k].index + 1]
    IN  n.item_idx < Len(vec) /\ vec[n.item_idx + 1] # None

\* C4: get_neighbor(n, L) never panics; it returns Some(m) exactly when the
\* entry for (n.layer, L.index, n.item_idx) exists and is set, and then m has
\* the stored item_idx and L's index; otherwise it returns None.
C4_GetNeighborReadsEntry ==
    \A k \in LayerIds : \A n \in AllNodes :
        /\ Resolve(n, k).panic = "none"
        /\ (Resolve(n, k).ret # None) <=> EntrySet(n, k)
        /\ EntrySet(n, k) =>
              LET m == Unwrap(Resolve(n, k).ret)
              IN  /\ Some(m.item_idx) = edge_layers[n.layer_idx + 1][layers[k].index + 1][n.item_idx + 1]
                  /\ m.layer_idx = layers[k].index

\* a set entry, an unset entry inside the vector and a node past its end
C4_Witness ==
    \E k \in LayerIds : \E n1, n2, n3 \in AllNodes :
        LET vec == edge_layers[n1.layer_idx + 1][layers[k].index + 1]
        IN  /\ n1.layer_idx = n2.layer_idx /\ n2.layer_idx = n3.layer_idx
            /\ Resolve(n1, k).ret # None
            /\ n2.item_idx < Len(vec) /\ Resolve(n2, k).ret = None
            /\ n3.item_idx >= Len(vec) /\ Resolve(n3, k).ret = None

\* C5: the k-th created layer has index k - 1, edge_layers has one entry per
\* layer and each of them one target slot per layer; right after create_layer
\* the slots added for the new target, and all slots of the new layer, are empty.
C5_LayersDense ==
    /\ \A k \in LayerIds : layers[k].index = k - 1
    /\ Len(edge_layers) = Len(layers)
    /\ \A f \in 1..Len(edge_layers) : Len(edge_layers[f]) = Len(layers)
    /\ last.op = "create_layer" =>
          /\ \A f \in 1..Len(edge_layers) : edge_layers[f][Len(layers)] = <<>>
          /\ \A t \in 1..Len(layers) : edge_layers[Len(layers)][t] = <<>>

\* a layer created after pushes and connects
C5_Witness ==
    /\ last.op = "create_layer"
    /\ Len(layers) >= 2
    /\ \E a, b \in AllNodes : EdgeSet(a, b)

\* C6: connect_oneway(a, b), for a node a of one layer with no edge into b's
\* layer yet and a node b of another layer, returns without panicking however
\* many other nodes of a's layer already resolve to b; afterwards a resolves to
\* b, every node that resolved to b still does, and get_neighbor(b, layer of a)
\* is what it was.
C6_SharedOwnership ==
    [][last'.op = "connect_oneway" =>
         LET a == last'.arg[1]
             b == last'.arg[2]
         IN  (a.layer_idx # b.layer_idx /\ ~EdgeSet(a, b)) =>
                /\ panic' = "none"
                /\ \A kb \in LayerIds : IsLayerOf(kb, b) =>
                      /\ ResolvesToAfter(a, kb, b)
                      /\ \A c \in AllNodes : ResolvesTo(c, kb, b) => ResolvesToAfter(c, kb, b)
                /\ \A ka \in LayerIds : IsLayerOf(ka, a) => ResolveAfter(b, ka) = Resolve(b, ka)]_vars

\* two distinct nodes of one layer share a node of another
C6_Witness ==
    /\ panic = "none"
    /\ last.op = "connect_oneway"
    /\ \E a1, a2, b \in AllNodes : \E kb \in LayerIds :
          /\ a1 # a2 /\ a1.layer_idx = a2.layer_idx /\ a1.layer_idx # b.layer_idx
          /\ IsLayerOf(kb, b)
          /\ ResolvesTo(a1, kb, b) /\ ResolvesTo(a2, kb, b)
          /\ \A ka \in LayerIds : IsLayerOf(ka, a1) => Resolve(b, ka).ret = None

\* C7: upgrading a downgraded node with the layer that handed it out, after any
\* number of further pushes to that layer, returns a NodeRef with the node's
\* layer_idx and item_idx that dereferences to the node's component.
C7_DowngradeUpgrade ==
    (last.op = "upgrade" /\ last.arg = Some(Unwrap(weak).from)) =>
        /\ panic = "none"
        /\ last.ret = Some(Unwrap(weak).node)

\* the layer has grown since the downgrade
C7_Witness ==
    /\ last.op = "upgrade" /\ last.arg = Some(Unwrap(weak).from)
    /\ last.ret # None
    /\ Len(layers[Unwrap(weak).from].content) > Unwrap(weak).len
    /\ Unwrap(weak).node.item # layers[Unwrap(weak).from].content[Len(layers[Unwrap(weak).from].content)]

\* C8: upgrading with any layer but the one that handed the node out panics,
\* and returns no NodeRef.
C8_UpgradeWrongLayerPanics ==
    (last.op = "upgrade" /\ last.arg # Some(Unwrap(weak).from)) =>
        /\ panic = "wrong_layer"
        /\ last.ret = None

\* the wrong layer holds an item at the reference's index
C8_Witness ==
    /\ last.op = "upgrade" /\ last.arg # Some(Unwrap(weak).from)
    /\ panic = "wrong_layer"
    /\ Len(layers[Unwrap(last.arg)].content) > Unwrap(weak).ref.item_idx

\* the history of pushes of the layer with index idx
PushedTo(idx) == pushed[CHOOSE k \in LayerIds : k - 1 = idx]

\* C9: push returns a node whose item_idx is the number of components pushed
\* to the layer before it; iterating a layer yields one NodeRef per component
\* pushed, with item_idx 0, 1, ... in that order, the i-th dereferencing to the
\* i-th component pushed, and then None.
C9_PushIterOrder ==
    /\ last.op = "push" =>
          LET n == Unwrap(last.ret)
          IN  /\ n.item_idx = Len(PushedTo(n.layer_idx)) - 1
              /\ n.item = PushedTo(n.layer_idx)[n.item_idx + 1]
    /\ last.op = "iter" =>
          LET k == Unwrap(last.arg)
          IN  /\ Len(last.ret.items) = Len(pushed[k])
              /\ \A i \in 1..Len(pushed[k]) :
                    /\ last.ret.items[i].item_idx = i - 1
                    /\ last.ret.items[i].item = pushed[k][i]
                    /\ last.ret.items[i].layer_idx = layers[k].index
              /\ last.ret.then = None

\* an iteration over two different components
C9_Witness ==
    /\ last.op = "iter"
    /\ Len(last.ret.items) >= 2
    /\ last.ret.items[1].item # last.ret.items[2].item

\* The point ray.start of a ray taken into the collider's frame lies strictly
\* inside the shape inflated by circle_r: inside the polygon, or nearer to it
\* than circle_r.
StrictlyInside(coll, ray) ==
    LET x_dist == Max(Abs(ray.start[1]) - ray.ps * coll.polygon.hw, 0)
        y_dist == Max(Abs(ray.start[2]) - ray.ps * coll.polygon.hh, 0)
        r == ray.ps * coll.circle_r
    IN  \/ x_dist * x_dist + y_dist * y_dist < r * r
        \/ /\ coll.polygon.kind = "Rect"
           /\ Abs(ray.start[1]) < ray.ps * coll.polygon.hw
           /\ Abs(ray.start[2]) < ray.ps * coll.polygon.hh

StartsInside == StrictlyInside(query.coll, PoseInversedMulRay(query.pose, query.ray))

\* C10: for a circle, a capsule, a rect and a rounded rect, at every pose and
\* in every direction, ray_collider returns None for a ray whose start lies
\* strictly inside the inflated shape.
C10_InsideAlwaysMisses ==
    (query.op = "ray_collider" /\ StartsInside) => query.ret = None

\* a ray from inside a rounded rect, off its centre, at a pose that turns and
\* moves the collider
C10_Witness ==
    /\ query.op = "ray_collider"
    /\ StartsInside
    /\ query.coll.polygon.kind = "Rect" /\ query.coll.circle_r > 0
    /\ query.pose.rotation = <<3, 4>> /\ query.pose.translation # <<0, 0>>
    /\ query.ray.start # query.pose.translation
    /\ Abs(PoseInversedMulRay(query.pose, query.ray).start[1])
          > 5 * query.coll.polygon.hw
    /\ query.ret = None

\* samples per unit of t along a ray
StepsPerUnit == 2

\* Ray::point_at_t(k / StepsPerUnit) of a ray in the collider's frame, as a
\* point scaled by ps * ds * StepsPerUnit
PointAtStep(ray, k) ==
    [start |-> VAdd(VScale(ray.ds * StepsPerUnit, ray.start), VScale(k * ray.ps, ray.dir)),
     ps |-> ray.ps * ray.ds * StepsPerUnit]

\* some point of the forward half-line lies strictly inside the inflated shape
ForwardMeets(coll, ray) ==
    \E k \in 0..MaxSteps : StrictlyInside(coll, PointAtStep(ray, k))

\* The point ray.start lies strictly outside the inflated shape: farther from
\* the polygon than circle_r.
StrictlyOutside(coll, ray) ==
    LET x_dist == Max(Abs(ray.start[1]) - ray.ps * coll.polygon.hw, 0)
        y_dist == Max(Abs(ray.start[2]) - ray.ps * coll.polygon.hh, 0)
        r == ray.ps * coll.circle_r
    IN  x_dist * x_dist + y_dist * y_dist > r * r

StartsOutside == StrictlyOutside(query.coll, PoseInversedMulRay(query.pose, query.ray))

\* C11: a ray that starts outside the inflated shape and whose forward
\* half-line meets it is answered with Some(t); None is returned only when
\* the forward half-line does not meet the shape.
C11_OutsideRayHits ==
    (/\ query.op = "ray_collider"
     /\ StartsOutside
     /\ ForwardMeets(query.coll, PoseInversedMulRay(query.pose, query.ray)))
    => query.ret # None

\* The point, in the collider's frame, lies inside the polygon (its edges
\* included) or nearer to it than circle_r.
InsideOrNear(coll, p) ==
    \/ StrictlyInside(coll, p)
    \/ /\ coll.polygon.kind = "Rect"
       /\ Abs(p.start[1]) <= p.ps * coll.polygon.hw
       /\ Abs(p.start[2]) <= p.ps * coll.polygon.hh

\* C12: point_collider_bool is true exactly when the point, taken into the
\* collider's frame, lies inside the polygon or at distance less than
\* circle_r from it, for Point, LineSegment and Rect polygons.
C12_PointInsideExactly ==
    query.op = "point_collider_bool" =>
        (Unwrap(query.ret)
            <=> InsideOrNear(query.coll, PoseInversedMulPoint(query.pose, query.point)))

\* the centres of the two circles are exactly r1 + r2 apart
CentresTouch ==
    LET dist == VSub(query.poses[2].translation, query.poses[1].translation)
        r_sum == query.shapes[1].circle_r + query.shapes[2].circle_r
    IN  MagSq(dist) = r_sum * r_sum

\* C13: two circles whose centres are exactly r1 + r2 apart, very small radii
\* included, get ContactResult::Zero from intersection_check.
C13_TouchingCirclesZero ==
    (query.op = "intersection_check" /\ CentresTouch) => Unwrap(query.ret) = Zero

\* two sharp rectangles, neither turned, whose facing edges lie on one line
\* and overlap along it
FacingEdgesCoincide ==
    LET d == VSub(query.poses[2].translation, query.poses[1].translation)
        a == query.shapes[1].polygon
        b == query.shapes[2].polygon
    IN  /\ query.shapes[1].circle_r = 0 /\ query.shapes[2].circle_r = 0
        /\ query.poses[1].rotation = <<5, 0>> /\ query.poses[2].rotation = <<5, 0>>
        /\ \/ Abs(d[1]) = a.hw + b.hw /\ Abs(d[2]) < a.hh + b.hh
           \/ Abs(d[2]) = a.hh + b.hh /\ Abs(d[1]) < a.hw + b.hw

\* C14: any_any returns Zero whenever an axis of either polygon has an
\* overlap <= 0, and so for two axis-aligned sharp rectangles whose facing
\* edges coincide, whichever of the two comes first.
C14_SeparatedIsZero ==
    query.op = "any_any" =>
        /\ (\E i \in 1..Len(ChainedAxes(query.shapes)) :
                Depth(query.poses, query.shapes, ChainedAxes(query.shapes)[i]) <= 0)
              => Unwrap(query.ret) = Zero
        /\ FacingEdgesCoincide => Unwrap(query.ret) = Zero

\* two sharp rectangles of different sizes touch along an edge, the smaller
\* one first
C14_Witness ==
    /\ query.op = "any_any"
    /\ FacingEdgesCoincide
    /\ query.shapes[1].polygon.hw < query.shapes[2].polygon.hw
    /\ query.poses[2].translation[1] < 0
    /\ Unwrap(query.ret) = Zero

\* a mass that is the Finite variant
IsFinite(m) == m.kind = "Finite"

\* C15: sees_forces is true exactly when the mass or the moment of inertia is
\* finite: false after new_kinematic, true after new_particle, new_dynamic
\* and new_dynamic_const_mass, and left as it was by with_pose, with_velocity
\* and ignore_gravity; Mass::inv of an infinite mass is 0.
C15_SeesForces ==
    [][body' # None =>
        LET b == Unwrap(body')
        IN  /\ SeesForces(b) <=> (IsFinite(b.mass) \/ IsFinite(b.moment_of_inertia))
            /\ last'.op = "new_kinematic" => ~SeesForces(b)
            /\ last'.op \in {"new_particle", "new_dynamic", "new_dynamic_const_mass"}
                  => SeesForces(b)
            /\ (body # None /\ last'.op \in {"with_pose", "with_velocity", "ignore_gravity"})
                  => SeesForces(b) = SeesForces(Unwrap(body))
            /\ \A m \in {b.mass, b.moment_of_inertia} :
                  ~IsFinite(m) => MassInv(m) = Whole(0)]_vars

\* a particle, which sees forces through its mass alone, after the three
\* builder calls
C15_Witness ==
    /\ body # None
    /\ Unwrap(body).mass.kind = "Finite"
    /\ Unwrap(body).moment_of_inertia = Infinite
    /\ Unwrap(body).ignores_gravity
    /\ Unwrap(body).pose # PhysicsPoseDefault
    /\ Unwrap(body).velocity # VelocityDefault
    /\ SeesForces(Unwrap(body))
    /\ MassInv(Unwrap(body).moment_of_inertia) = Whole(0)

\* the horizontal speed the keys ask for
TargetHvel ==
    IF input.keyboard["Right"].state = "Pressed" THEN MoveSpeed
    ELSE IF input.keyboard["Left"].state = "Pressed" THEN -MoveSpeed
    ELSE 0

\* C16: a tick of the player controller changes the horizontal velocity by
\* clamp(target_hvel - current_vx, -max_acceleration, +max_acceleration), so
\* by at most max_acceleration in magnitude.
C16_AccelerationClamped ==
    [][last'.op = "tick" =>
        LET vx == Unwrap(body).velocity.linear[1]
            change == Unwrap(body').velocity.linear[1] - vx
            needed == TargetHvel - vx
        IN  /\ change = (IF needed > MaxAcceleration THEN MaxAcceleration
                         ELSE IF needed < -MaxAcceleration THEN -MaxAcceleration
                         ELSE needed)
            /\ Abs(change) <= MaxAcceleration]_vars

\* C17: is_key_pressed(key, Some(limit)) is true exactly when the key is
\* Pressed and has been so for fewer than limit ticks, and with None exactly
\* when it is Pressed; is_key_released does the same for Released.
C17_KeyInStateWithinLimit ==
    \A key \in Keys :
        /\ \A limit \in 0..MaxAge :
            /\ IsKeyPressed(input, key, Some(limit))
                  <=> (input.keyboard[key].state = "Pressed" /\ since.keyboard[key] < limit)
            /\ IsKeyReleased(input, key, Some(limit))
                  <=> (input.keyboard[key].state = "Released" /\ since.keyboard[key] < limit)
        /\ IsKeyPressed(input, key, None) <=> input.keyboard[key].state = "Pressed"
        /\ IsKeyReleased(input, key, None) <=> input.keyboard[key].state = "Released"

\* C18: the age kept for every key and every tracked mouse button is the
\* number of ticks since the last event that changed its state; an event
\* repeating the state does not reset it.
C18_AgeCountsTicksSinceChange ==
    /\ \A key \in Keys : input.keyboard[key].age = since.keyboard[key]
    /\ \A button \in TrackedButtons :
          input.mouse_buttons[button].age = since.mouse_buttons[button]

\* C19: a RenderContext from draw_to_window, draw_to_texture or
\* draw_to_texture_window_depth panics when it is dropped without submit,
\* and does not panic when submit consumes it.
C19_DropWithoutSubmitPanics ==
    [][/\ last'.op = "drop" => panic' = "unsubmitted"
       /\ last'.op = "submit" => panic' = "none"
       /\ last'.op \in {"draw_to_window", "draw_to_texture", "draw_to_texture_window_depth"}
             => /\ panic' = "none"
                /\ ctx'.held # None
                /\ Unwrap(ctx'.held).made_by = last'.op]_vars

\* after a first context was submitted, a second one is dropped
C19_Witness ==
    /\ last.op = "drop"
    /\ panic = "unsubmitted"
    /\ ctx.queue > 0
    /\ ctx.held = None

\* C20: connect_oneway(start, end) changes get_neighbor only for start and
\* the layer of end; for every other node and layer the result is as before,
\* and the nodes of start's layer below start that had no edge into end's
\* layer still resolve to None once the edge vector has grown past them.
C20_OnewayFrame ==
    [][last'.op = "connect_oneway" =>
        LET start == last'.arg[1]
            end == last'.arg[2]
        IN  \A x \in AllNodes, k \in LayerIds :
                /\ (x # start \/ ~IsLayerOf(k, end)) => ResolveAfter(x, k) = Resolve(x, k)
                /\ (/\ x.layer_idx = start.layer_idx
                    /\ x.item_idx < start.item_idx
                    /\ IsLayerOf(k, end)
                    /\ Resolve(x, k).ret = None)
                      => ResolveAfter(x, k).ret = None]_vars

\* the third node of a layer was connected first: the edge vector grew past
\* the two nodes before it, which have no neighbour
C20_Witness ==
    /\ last.op = "connect_oneway"
    /\ panic = "none"
    /\ last.arg[1].item_idx = 2
    /\ \E k \in LayerIds :
          /\ IsLayerOf(k, last.arg[2])
          /\ Resolve(last.arg[1], k).ret # None
          /\ Len(edge_layers[last.arg[1].layer_idx + 1][k]) = 3
          /\ \A x \in AllNodes :
                (x.layer_idx = last.arg[1].layer_idx /\ x.item_idx < 2)
                   => Resolve(x, k).ret = None
    /\ Cardinality({x \in AllNodes : x.layer_idx = last.arg[1].layer_idx}) = 3

C22_OneAcquirePerFrame ==
    [][/\ last'.op = "draw_to_window" =>
             /\ ctx'.acquired = ctx.acquired + (IF ctx.window_draws = 0 THEN 1 ELSE 0)
             /\ ctx'.presented = ctx.presented
             /\ ctx'.active_frame
       /\ last'.op \in {"draw_to_texture", "draw_to_texture_window_depth"} =>
             /\ ctx'.acquired = ctx.acquired
             /\ ctx'.presented = ctx.presented
             /\ ctx'.active_frame = ctx.active_frame
       /\ last'.op = "present_frame" =>
             /\ ctx'.presented = ctx.presented + (IF ctx.active_frame THEN 1 ELSE 0)
             /\ ctx'.acquired = ctx.acquired
             /\ ~ctx'.active_frame
       /\ ctx'.acquired - ctx'.presented = (IF ctx'.window_draws > 0 THEN 1 ELSE 0)]_vars

\* the window is drawn to for the second time in a frame in which a texture
\* was drawn to as well: one texture was acquired, none presented yet
C22_Witness ==
    /\ last.op = "draw_to_window"
    /\ panic = "none"
    /\ ctx.held # None
    /\ ctx.queue = 2
    /\ ctx.window_draws = 2
    /\ ctx.acquired = 1
    /\ ctx.presented = 0
    /\ ctx.active_frame

\* the drag is in the given state
DragIs(self, kind) == self.drag_state # None /\ Unwrap(self.drag_state).kind = kind

\* C26: a left-button press while drag_state is None starts InProgress with
\* duration 0 and the current cursor position as start; each tick while
\* InProgress adds 1 to duration; a left-button release turns InProgress into
\* Completed with the same start and duration and the current cursor
\* position as end; a Completed drag stays as it is until the next tick,
\* which resets drag_state to None; other buttons never change drag_state.
C26_DragLifecycle ==
    [][/\ (/\ last'.op = "track_mouse_button"
           /\ last'.arg = <<"Left", "Pressed">>
           /\ input.drag_state = None)
             => input'.drag_state =
                    Some([kind |-> "InProgress", start |-> input.cursor_pos.pos,
                          duration |-> 0, end |-> None])
       /\ (last'.op = "tick" /\ DragIs(input, "InProgress"))
             => input'.drag_state =
                    Some([Unwrap(input.drag_state) EXCEPT !.duration = @ + 1])
       /\ (/\ last'.op = "track_mouse_button"
           /\ last'.arg = <<"Left", "Released">>
           /\ DragIs(input, "InProgress"))
             => input'.drag_state =
                    Some([kind |-> "Completed",
                          start |-> Unwrap(input.drag_state).start,
                          duration |-> Unwrap(input.drag_state).duration,
                          end |-> Some(input.cursor_pos.pos)])
       /\ DragIs(input, "Completed")
             => input'.drag_state = (IF last'.op = "tick" THEN None ELSE input.drag_state)
       /\ (last'.op = "track_mouse_button" /\ last'.arg[1] # "Left")
             => input'.drag_state = input.drag_state]_vars

\* a drag that lasted two ticks is completed away from where it started
C26_Witness ==
    /\ last.op = "track_mouse_button"
    /\ last.arg = <<"Left", "Released">>
    /\ DragIs(input, "Completed")
    /\ Unwrap(input.drag_state).duration = 2
    /\ Unwrap(input.drag_state).start # Unwrap(Unwrap(input.drag_state).end)
    /\ Unwrap(Unwrap(input.drag_state).end) = input.cursor_pos.pos

\* the contacts of a result, in order
ContactsOf(cr) ==
    CASE cr.kind = "Zero" -> <<>>
      [] cr.kind = "One" -> <<ContactOfOne(cr)>>
      [] cr.kind = "Two" -> <<cr.c1, cr.c2>>

\* C24: the calls of next on ContactResult::iter yield the contacts of the
\* variant in order (none for Zero, c for One, c1 then c2 for Two) and then
\* None on every later call, more than 255 calls included: no call fails and
\* no contact comes again.
C24_IterYieldsEachOnce ==
    /\ panic = "none"
    /\ query.op = "next" =>
          query.ret = (IF query.calls <= Len(ContactsOf(query.iter.cr))
                       THEN Some(ContactsOf(query.iter.cr)[query.calls])
                       ELSE None)

\* a result with every normal negated and the two offsets of every contact
\* swapped
Mirrored(cr) ==
    CASE cr.kind = "Zero" -> cr
      [] cr.kind = "One" ->
            [cr EXCEPT !.normal.unit.neg = ~@, !.offsets = <<cr.offsets[2], cr.offsets[1]>>]
      [] cr.kind = "Two" ->
            [cr EXCEPT !.c1.normal.unit.neg = ~@, !.c1.offsets = <<cr.c1.offsets[2], cr.c1.offsets[1]>>,
                       !.c2.normal.unit.neg = ~@, !.c2.offsets = <<cr.c2.offsets[2], cr.c2.offsets[1]>>]

\* C25: intersection_check with its two arguments swapped yields the same
\* number of contacts with every normal negated and the two offsets of every
\* contact swapped, for two circles (centres that coincide or are closer than
\* the degenerate threshold included) and for a circle and a polygon.
C25_SwappedIsMirrored ==
    query.op = "intersection_check" => Unwrap(query.swapped) = Mirrored(Unwrap(query.ret))

\* where a point of the clipped edge lies along the target, 5 times too
\* large: t is the distance of the point from the start of the edge
AlongTarget(t) ==
    5 * Dot(VSub(query.edge.start, query.target.start), query.target.dir)
        + t * Dot(query.edge.dir, query.target.dir)

\* the point lies strictly between the two lines through the ends of the target
InsideSlab(t) == 0 < AlongTarget(t) /\ AlongTarget(t) < 25 * query.target.length

\* a == b on f64
SameValue(a, b) == LessEq(a, b) /\ LessEq(b, a)

\* C21: whenever clip_edge(target, edge) returns Passes{enters, exits} for
\* edges of positive length, 0 <= enters <= exits <= edge.length, with
\* enters exactly 0 when the edge starts inside the slab and exits exactly
\* edge.length when it ends inside it.
C21_PassesIsClamped ==
    (query.op = "clip_edge" /\ Unwrap(query.ret).kind = "Passes") =>
        LET enters == Unwrap(query.ret).enters
            exits == Unwrap(query.ret).exits
            length == Finite(query.edge.length, 1)
        IN  /\ LessEq(Finite(0, 1), enters)
            /\ LessEq(enters, exits)
            /\ LessEq(exits, length)
            /\ InsideSlab(0) => SameValue(enters, Finite(0, 1))
            /\ InsideSlab(query.edge.length) => SameValue(exits, length)

====
